---- MODULE Spec2Model ----
(***************************************************************************)
(* Query processor (src/src/query/processor.rs), completion handle         *)
(* (src/src/query/completion.rs) and receive buffer                        *)
(* (src/src/helpers/buffers/receive.rs) of the three-helper IPA service.   *)
(*                                                                         *)
(* Spec     : three helpers, each with one Processor, joined by a          *)
(*            transport that carries PrepareQuery requests.                *)
(* SpecBuf  : one ReceiveBuffer with its channels.                         *)
(***************************************************************************)
EXTENDS Integers, Sequences, FiniteSets, TLC

(***************************************************************************)
(* Bounds of the model.                                                    *)
(***************************************************************************)
\* new_query calls that get past their first set_state, over a whole run
MaxCalls == 1
\* prepare calls made directly on a helper (not sent by a new_query of the
\* model), over a whole run
MaxDirect == 1
\* receive_inputs calls that start an executor, over a whole run
MaxInputs == 1

(***************************************************************************)
(* Helpers, roles, configurations.                                         *)
(***************************************************************************)
Helpers == {1, 2, 3}

Roles == {"H1", "H2", "H3"}

\* `let query_id = QueryId;` : the query id is a unit value
QueryId == "QueryId"

NoConfig == [size |-> 0, field_type |-> "none", query_type |-> "none"]

Configs ==
    { [size |-> 1, field_type |-> "Fp31", query_type |-> "TestMultiply"],
      [size |-> 2, field_type |-> "Fp32BitPrime", query_type |-> "TestMultiply"] }

Inputs == {"input"}

NoRoles == [h \in Helpers |-> "none"]

\* HelperIdentity::others : [right, left] in ring order
others(id) == << (id % 3) + 1, ((id + 1) % 3) + 1 >>

\* RoleAssignment::try_from([(id, role); 3]) : the helper -> role map
RoleAssignment_try_from(pairs) ==
    [h \in Helpers |-> pairs[CHOOSE i \in 1..3 : pairs[i][1] = h][2]]

\* RoleAssignment::role
role(roles, id) == roles[id]

\* every RoleAssignment value: the bijections Helpers -> Roles
RoleAssignments ==
    {r \in [Helpers -> Roles] : \A a, b \in Helpers : a # b => r[a] # r[b]}

\* the three assignments that follow the ring: H2 is the right neighbour of H1
RingAssignments ==
    {r \in RoleAssignments : \A h \in Helpers :
        r[h] = "H1" => r[others(h)[1]] = "H2"}

NoReq == [query_id |-> "none", config |-> NoConfig, roles |-> NoRoles]

PrepareQuery(q, c, r) == [query_id |-> q, config |-> c, roles |-> r]

(***************************************************************************)
(* QueryState and the registry's transition check.                         *)
(***************************************************************************)
Empty ==
    [tag |-> "Empty", query_id |-> "none", config |-> NoConfig,
     roles |-> NoRoles, input |-> "none", outcome |-> "none"]

Preparing(c) == [Empty EXCEPT !.tag = "Preparing", !.config = c]

AwaitingInputs(q, c, r) ==
    [Empty EXCEPT !.tag = "AwaitingInputs", !.query_id = q, !.config = c,
                  !.roles = r]

\* Running(handle): the executor task with what it was started with; its
\* `outcome` is "pending" until the task finishes
Running(q, c, r, i, o) ==
    [tag |-> "Running", query_id |-> q, config |-> c, roles |-> r,
     input |-> i, outcome |-> o]

AwaitingCompletion == [Empty EXCEPT !.tag = "AwaitingCompletion"]

Completed(o) == [Empty EXCEPT !.tag = "Completed", !.outcome = o]

\* QueryStatus::from(&QueryState)
QueryStatus(state) == state.tag

\* the legality table of the registry
Legal(from, to) ==
    \/ from = "Empty" /\ to \in {"Preparing", "AwaitingInputs"}
    \/ from = "Preparing" /\ to = "AwaitingInputs"
    \/ from = "AwaitingInputs" /\ to = "Running"
    \/ from = "Running" /\ to \in {"AwaitingCompletion", "Completed"}
    \/ from = "AwaitingCompletion" /\ to = "Completed"

NoError == [kind |-> "none", from |-> "none", to |-> "none"]

AlreadyRunning == [kind |-> "AlreadyRunning", from |-> "none", to |-> "none"]

InvalidState(from, to) == [kind |-> "InvalidState", from |-> from, to |-> to]

\* QueryState::transition
transition(cur, new) ==
    IF Legal(cur.tag, new.tag)
    THEN [err |-> NoError, state |-> new]
    ELSE IF new.tag \in {"Preparing"} /\ cur.tag \notin {"Empty", "Completed"}
    THEN [err |-> AlreadyRunning, state |-> cur]
    ELSE [err |-> InvalidState(cur.tag, new.tag), state |-> cur]

(***************************************************************************)
(* State of the three processors and of the transport between them.        *)
(***************************************************************************)
VARIABLES
    queries,      \* queries[h] : the registry entry of helper h for QueryId
    calls,        \* calls[c]   : the c-th new_query call that inserted Preparing
    net,          \* prepare calls in progress (PrepareQuery sent or being handled)
    completion,   \* completion[h] : the task held by a pending CompletionHandle
    ret,          \* what the last step returned to its caller on Watched
    observed,     \* the last status query_status returned on helper Watched,
                  \* and whether the entry has been removed since
    used          \* used.direct, used.inputs : calls made so far

Calls == 1..MaxCalls

\* the helper whose callers the model watches: what they get back is recorded
\* in `ret` and `observed` (the three helpers run the same code in a ring)
Watched == CHOOSE h \in Helpers : \A g \in Helpers : h <= g

NoCall ==
    [pc |-> "unused", h |-> 0, req |-> NoReq, ack |-> [p \in Helpers |-> "none"]]

\* a new_query call that has returned or was dropped
Done == [NoCall EXCEPT !.pc = "done"]

RetNone ==
    [op |-> "none", h |-> 0, call |-> 0, tag |-> "none", err |-> NoError,
     status |-> "none", req |-> NoReq, outcome |-> "none",
     ack |-> [p \in Helpers |-> "none"]]

Return(op, h, tag) == [RetNone EXCEPT !.op = op, !.h = h, !.tag = tag]

\* `ret` records what the callers on helper Watched get back
Returned(r) == IF r.h = Watched THEN r ELSE RetNone

\* a prepare call: `call` is the new_query call that sent it (0: called
\* directly, then `slot` tells direct calls apart)
PrepareCall(c, d, to, req, phase) ==
    [call |-> c, slot |-> d, to |-> to, req |-> req, phase |-> phase]

\* QueryHandle::status : Some(status) / None
status(h) == IF queries[h].tag = "Empty" THEN "None" ELSE QueryStatus(queries[h])

\* QueryHandle::set_state, as the outcome of the transition check
set_state(h, new) == transition(queries[h], new)

\* Drop for RemoveQuery : the entry is removed from the registry
remove_query(qs, h) == [qs EXCEPT ![h] = Empty]

\* an operation on helper h is suspended at an .await: new_query on the
\* broadcast (line 158) or complete on the completion handle (line 307)
Suspended(h) ==
    \/ \E c \in Calls : calls[c].pc = "sending" /\ calls[c].h = h
    \/ completion[h].tag = "Running"

(***************************************************************************)
(* Processor::new_query                                                    *)
(***************************************************************************)
\* new_query with the two neighbours taken in the wrong order
new_query_begin_swapped(h, req) ==
    LET query_id == QueryId
        r == set_state(h, Preparing(req))
        id == h
        right == others(id)[2]
        left == others(id)[1]
        roles == RoleAssignment_try_from(
                    << <<id, "H1">>, <<right, "H2">>, <<left, "H3">> >>)
        prepare_request == PrepareQuery(query_id, req, roles)
    IN  IF r.err.kind # "none"
        THEN /\ ret' = Returned([Return("new_query", h, "State") EXCEPT !.err = r.err])
             /\ UNCHANGED <<queries, calls, net, completion, used>>
        ELSE \E c \in Calls :
             /\ calls[c].pc = "unused"
             /\ \A d \in Calls : d < c => calls[d].pc # "unused"
             /\ queries' = [queries EXCEPT ![h] = r.state]
             /\ calls' = [calls EXCEPT ![c] =
                    [pc |-> "sending", h |-> h, req |-> prepare_request,
                     ack |-> [p \in Helpers |->
                                IF p \in {left, right} THEN "pending" ELSE "none"]]]
             /\ net' = net \cup { PrepareCall(c, 0, left, prepare_request, "sent"),
                                  PrepareCall(c, 0, right, prepare_request, "sent") }
             /\ ret' = RetNone
             /\ UNCHANGED <<completion, used>>

\* new_query that goes on to broadcast when set_state(Preparing) has failed
new_query_begin_unchecked(h, req) ==
    LET query_id == QueryId
        r == set_state(h, Preparing(req))
        id == h
        right == others(id)[1]
        left == others(id)[2]
        roles == RoleAssignment_try_from(
                    << <<id, "H1">>, <<right, "H2">>, <<left, "H3">> >>)
        prepare_request == PrepareQuery(query_id, req, roles)
    IN  \E c \in Calls :
            /\ calls[c].pc = "unused"
            /\ \A d \in Calls : d < c => calls[d].pc # "unused"
            /\ queries' = [queries EXCEPT ![h] = r.state]
            /\ calls' = [calls EXCEPT ![c] =
                   [pc |-> "sending", h |-> h, req |-> prepare_request,
                    ack |-> [p \in Helpers |->
                               IF p \in {left, right} THEN "pending" ELSE "none"]]]
            /\ net' = net \cup { PrepareCall(c, 0, left, prepare_request, "sent"),
                                 PrepareCall(c, 0, right, prepare_request, "sent") }
            /\ ret' = RetNone
            /\ UNCHANGED <<completion, used>>

\* new_query that makes its guard before the first set_state, so that a
\* rejected call drops a guard
new_query_begin_guard_first(h, req) ==
    LET query_id == QueryId
        r == set_state(h, Preparing(req))
        id == h
        right == others(id)[1]
        left == others(id)[2]
        roles == RoleAssignment_try_from(
                    << <<id, "H1">>, <<right, "H2">>, <<left, "H3">> >>)
        prepare_request == PrepareQuery(query_id, req, roles)
    IN  IF r.err.kind # "none"
        THEN /\ ret' = Returned([Return("new_query", h, "State") EXCEPT !.err = r.err])
             /\ queries' = remove_query(queries, h)
             /\ UNCHANGED <<calls, net, completion, used>>
        ELSE \E c \in Calls :
             /\ calls[c].pc = "unused"
             /\ \A d \in Calls : d < c => calls[d].pc # "unused"
             /\ queries' = [queries EXCEPT ![h] = r.state]
             /\ calls' = [calls EXCEPT ![c] =
                    [pc |-> "sending", h |-> h, req |-> prepare_request,
                     ack |-> [p \in Helpers |->
                                IF p \in {left, right} THEN "pending" ELSE "none"]]]
             /\ net' = net \cup { PrepareCall(c, 0, left, prepare_request, "sent"),
                                  PrepareCall(c, 0, right, prepare_request, "sent") }
             /\ ret' = RetNone
             /\ UNCHANGED <<completion, used>>

\* lines 136-158: up to the suspension on try_join
new_query_begin(h, req) ==
    LET query_id == QueryId
        r == set_state(h, Preparing(req))
        id == h
        right == others(id)[1]
        left == others(id)[2]
        roles == RoleAssignment_try_from(
                    << <<id, "H1">>, <<right, "H2">>, <<left, "H3">> >>)
        prepare_request == PrepareQuery(query_id, req, roles)
    IN  IF r.err.kind # "none"
        THEN /\ ret' = Returned([Return("new_query", h, "State") EXCEPT !.err = r.err])
             /\ UNCHANGED <<queries, calls, net, completion, used>>
        ELSE \E c \in Calls :
             /\ calls[c].pc = "unused"
             /\ \A d \in Calls : d < c => calls[d].pc # "unused"
             /\ queries' = [queries EXCEPT ![h] = r.state]
             /\ calls' = [calls EXCEPT ![c] =
                    [pc |-> "sending", h |-> h, req |-> prepare_request,
                     ack |-> [p \in Helpers |->
                                IF p \in {left, right} THEN "pending" ELSE "none"]]]
             /\ net' = net \cup { PrepareCall(c, 0, left, prepare_request, "sent"),
                                  PrepareCall(c, 0, right, prepare_request, "sent") }
             /\ ret' = RetNone
             /\ UNCHANGED <<completion, used>>

\* the outcome of try_join once it can complete: an error as soon as one
\* send has failed, success when both peers have acknowledged
try_join(c) ==
    IF \E p \in Helpers : calls[c].ack[p] \in {"rejected", "unreachable"}
    THEN "Err"
    ELSE IF \A p \in Helpers : calls[c].ack[p] \in {"none", "ok"}
    THEN "Ok"
    ELSE "Pending"

\* new_query whose guard is restored before the broadcast: a failed broadcast
\* leaves the Preparing entry
new_query_resume_restored(c) ==
    LET h == calls[c].h
        req == calls[c].req
        r == set_state(h, AwaitingInputs(req.query_id, req.config, req.roles))
    IN  /\ calls[c].pc = "sending"
        /\ try_join(c) # "Pending"
        /\ IF try_join(c) = "Err"
           THEN /\ queries' = queries
                /\ ret' = Returned([Return("new_query", h, "Transport") EXCEPT
                              !.call = c, !.req = req, !.ack = calls[c].ack])
           ELSE IF r.err.kind # "none"
           THEN /\ queries' = remove_query(queries, h)
                /\ ret' = Returned([Return("new_query", h, "State") EXCEPT
                              !.call = c, !.req = req, !.err = r.err,
                              !.ack = calls[c].ack])
           ELSE /\ queries' = [queries EXCEPT ![h] = r.state]
                /\ ret' = Returned([Return("new_query", h, "Ok") EXCEPT
                              !.call = c, !.req = req, !.ack = calls[c].ack])
        /\ calls' = [calls EXCEPT ![c] = Done]
        /\ UNCHANGED <<net, completion, used>>

\* lines 158-164: from the completion of try_join to the return
new_query_resume(c) ==
    LET h == calls[c].h
        req == calls[c].req
        r == set_state(h, AwaitingInputs(req.query_id, req.config, req.roles))
    IN  /\ calls[c].pc = "sending"
        /\ try_join(c) # "Pending"
        /\ IF try_join(c) = "Err"
           THEN /\ queries' = remove_query(queries, h)
                /\ ret' = Returned([Return("new_query", h, "Transport") EXCEPT
                              !.call = c, !.req = req, !.ack = calls[c].ack])
           ELSE IF r.err.kind # "none"
           THEN /\ queries' = remove_query(queries, h)
                /\ ret' = Returned([Return("new_query", h, "State") EXCEPT
                              !.call = c, !.req = req, !.err = r.err,
                              !.ack = calls[c].ack])
           ELSE /\ queries' = [queries EXCEPT ![h] = r.state]
                /\ ret' = Returned([Return("new_query", h, "Ok") EXCEPT
                              !.call = c, !.req = req, !.ack = calls[c].ack])
        /\ calls' = [calls EXCEPT ![c] = Done]
        /\ UNCHANGED <<net, completion, used>>

\* a dropped new_query whose guard does not remove the entry
new_query_drop_keeps(c) ==
    /\ calls[c].pc = "sending"
    /\ calls' = [calls EXCEPT ![c] = Done]
    /\ ret' = RetNone
    /\ UNCHANGED <<queries, net, completion, used>>

\* the future of new_query is dropped while it is suspended (line 158): the
\* guard of line 139 is dropped with it
new_query_drop(c) ==
    /\ calls[c].pc = "sending"
    /\ queries' = remove_query(queries, calls[c].h)
    /\ calls' = [calls EXCEPT ![c] = Done]
    /\ ret' = RetNone
    /\ UNCHANGED <<net, completion, used>>

(***************************************************************************)
(* Processor::prepare, and the transport that carries PrepareQuery         *)
(***************************************************************************)
\* the caller of a prepare call gets its result: a new_query that is still
\* waiting for this peer sees the send succeed or fail
acknowledge(m, tag) ==
    IF m.call # 0 /\ calls[m.call].pc = "sending"
    THEN [calls EXCEPT ![m.call].ack[m.to] =
                IF tag = "Ok" THEN "ok" ELSE "rejected"]
    ELSE calls

\* prepare without the check of the helper's own role
prepare_check_any_role(m) ==
    LET my_role == role(m.req.roles, m.to)
    IN  IF FALSE
        THEN /\ ret' = Returned([Return("prepare", m.to, "WrongTarget") EXCEPT
                            !.call = m.call, !.req = m.req])
             /\ calls' = acknowledge(m, "WrongTarget")
             /\ net' = net \ {m}
             /\ UNCHANGED <<queries, completion>>
        ELSE IF status(m.to) # "None"
        THEN /\ ret' = Returned([Return("prepare", m.to, "AlreadyRunning") EXCEPT
                            !.call = m.call, !.req = m.req])
             /\ calls' = acknowledge(m, "AlreadyRunning")
             /\ net' = net \ {m}
             /\ UNCHANGED <<queries, completion>>
        ELSE /\ ret' = RetNone
             /\ net' = (net \ {m}) \cup {[m EXCEPT !.phase = "checked"]}
             /\ UNCHANGED <<queries, calls, completion>>

\* lines 180-188: the role check and the status check
prepare_check(m) ==
    LET my_role == role(m.req.roles, m.to)
    IN  IF my_role = "H1"
        THEN /\ ret' = Returned([Return("prepare", m.to, "WrongTarget") EXCEPT
                            !.call = m.call, !.req = m.req])
             /\ calls' = acknowledge(m, "WrongTarget")
             /\ net' = net \ {m}
             /\ UNCHANGED <<queries, completion>>
        ELSE IF status(m.to) # "None"
        THEN /\ ret' = Returned([Return("prepare", m.to, "AlreadyRunning") EXCEPT
                            !.call = m.call, !.req = m.req])
             /\ calls' = acknowledge(m, "AlreadyRunning")
             /\ net' = net \ {m}
             /\ UNCHANGED <<queries, completion>>
        ELSE /\ ret' = RetNone
             /\ net' = (net \ {m}) \cup {[m EXCEPT !.phase = "checked"]}
             /\ UNCHANGED <<queries, calls, completion>>

\* prepare that drops the error of set_state and answers Ok
prepare_set_swallows(m) ==
    LET req == m.req
        r == set_state(m.to, AwaitingInputs(req.query_id, req.config, req.roles))
    IN  /\ m \in net
        /\ m.phase = "checked"
        /\ IF r.err.kind # "none"
           THEN /\ ret' = Returned([Return("prepare", m.to, "Ok") EXCEPT
                               !.call = m.call, !.req = req])
                /\ calls' = acknowledge(m, "Ok")
                /\ UNCHANGED queries
           ELSE /\ queries' = [queries EXCEPT ![m.to] = r.state]
                /\ ret' = Returned([Return("prepare", m.to, "Ok") EXCEPT
                               !.call = m.call, !.req = req])
                /\ calls' = acknowledge(m, "Ok")
        /\ net' = net \ {m}
        /\ UNCHANGED <<completion, used>>

\* lines 190-196: set_state(AwaitingInputs) and the return
prepare_set(m) ==
    LET req == m.req
        r == set_state(m.to, AwaitingInputs(req.query_id, req.config, req.roles))
    IN  /\ m \in net
        /\ m.phase = "checked"
        /\ IF r.err.kind # "none"
           THEN /\ ret' = Returned([Return("prepare", m.to, "StateError") EXCEPT
                               !.call = m.call, !.req = req, !.err = r.err])
                /\ calls' = acknowledge(m, "StateError")
                /\ UNCHANGED queries
           ELSE /\ queries' = [queries EXCEPT ![m.to] = r.state]
                /\ ret' = Returned([Return("prepare", m.to, "Ok") EXCEPT
                               !.call = m.call, !.req = req])
                /\ calls' = acknowledge(m, "Ok")
        /\ net' = net \ {m}
        /\ UNCHANGED <<completion, used>>

\* transport.send delivers the PrepareQuery: the peer's prepare starts
prepare_delivered(m) ==
    /\ m \in net
    /\ m.call # 0
    /\ m.phase = "sent"
    /\ prepare_check(m)
    /\ UNCHANGED used

\* prepare is called on helper h with a request of the caller's choice
prepare_direct(h, req) ==
    /\ used.direct < MaxDirect
    /\ used' = [used EXCEPT !.direct = @ + 1]
    /\ prepare_check(PrepareCall(0, used.direct + 1, h, req, "sent"))

\* transport.send fails: the peer is unreachable and never sees the request
send_unreachable(m) ==
    /\ m \in net
    /\ m.call # 0
    /\ m.phase = "sent"
    /\ net' = net \ {m}
    /\ calls' = IF calls[m.call].pc = "sending"
                THEN [calls EXCEPT ![m.call].ack[m.to] = "unreachable"]
                ELSE calls
    /\ ret' = RetNone
    /\ UNCHANGED <<queries, completion, used>>

(***************************************************************************)
(* Processor::receive_inputs, the executor, query_status, complete         *)
(***************************************************************************)
Outcomes == {"Ok", "ProtocolError"}

\* receive_inputs that takes the AwaitingInputs entry out and does not insert
\* the Running entry
receive_inputs_removes(h, input) ==
    LET state == queries[h]
    IN  IF state.tag = "Empty"
        THEN /\ ret' = Returned(Return("receive_inputs", h, "NoSuchQuery"))
             /\ UNCHANGED <<queries, calls, net, completion, used>>
        ELSE IF state.tag = "AwaitingInputs"
        THEN /\ used.inputs < MaxInputs
             /\ used' = [used EXCEPT !.inputs = @ + 1]
             /\ queries' = remove_query(queries, h)
             /\ ret' = Returned(Return("receive_inputs", h, "Ok"))
             /\ UNCHANGED <<calls, net, completion>>
        ELSE /\ queries' = [queries EXCEPT ![h] = state]
             /\ ret' = Returned([Return("receive_inputs", h, "StateError") EXCEPT
                           !.err = InvalidState(QueryStatus(state), "Running")])
             /\ UNCHANGED <<calls, net, completion, used>>

\* receive_inputs that does not put back an entry it cannot use
receive_inputs_drops_state(h, input) ==
    LET state == queries[h]
    IN  IF state.tag = "Empty"
        THEN /\ ret' = Returned(Return("receive_inputs", h, "NoSuchQuery"))
             /\ UNCHANGED <<queries, calls, net, completion, used>>
        ELSE IF state.tag = "AwaitingInputs"
        THEN /\ used.inputs < MaxInputs
             /\ used' = [used EXCEPT !.inputs = @ + 1]
             /\ queries' = [queries EXCEPT ![h] =
                    Running(state.query_id, state.config, state.roles,
                            input.input_stream, "pending")]
             /\ ret' = Returned(Return("receive_inputs", h, "Ok"))
             /\ UNCHANGED <<calls, net, completion>>
        ELSE /\ queries' = remove_query(queries, h)
             /\ ret' = Returned([Return("receive_inputs", h, "StateError") EXCEPT
                           !.err = InvalidState(QueryStatus(state), "Running")])
             /\ UNCHANGED <<calls, net, completion, used>>

\* receive_inputs that starts the executor whatever the state of the entry
receive_inputs_any_state(h, input) ==
    LET state == queries[h]
    IN  IF state.tag = "Empty"
        THEN /\ ret' = Returned(Return("receive_inputs", h, "NoSuchQuery"))
             /\ UNCHANGED <<queries, calls, net, completion, used>>
        ELSE /\ used' = used
             /\ queries' = [queries EXCEPT ![h] =
                    Running(state.query_id, state.config, state.roles,
                            input.input_stream, "pending")]
             /\ ret' = Returned(Return("receive_inputs", h, "Ok"))
             /\ UNCHANGED <<calls, net, completion>>

\* lines 211-246; executor::execute starts the task, its outcome pending
\* receive_inputs that starts the executor from whatever entry it finds
receive_inputs_unchecked(h, input) ==
    LET state == queries[h]
    IN  IF state.tag = "Empty"
        THEN /\ ret' = Returned(Return("receive_inputs", h, "NoSuchQuery"))
             /\ UNCHANGED <<queries, calls, net, completion, used>>
        ELSE /\ used.inputs < MaxInputs
             /\ used' = [used EXCEPT !.inputs = @ + 1]
             /\ queries' = [queries EXCEPT ![h] =
                    Running(state.query_id, state.config, state.roles,
                            input.input_stream, "pending")]
             /\ ret' = Returned(Return("receive_inputs", h, "Ok"))
             /\ UNCHANGED <<calls, net, completion>>

receive_inputs(h, input) ==
    LET state == queries[h]
    IN  IF state.tag = "Empty"
        THEN /\ ret' = Returned(Return("receive_inputs", h, "NoSuchQuery"))
             /\ UNCHANGED <<queries, calls, net, completion, used>>
        ELSE IF state.tag = "AwaitingInputs"
        THEN /\ used.inputs < MaxInputs
             /\ used' = [used EXCEPT !.inputs = @ + 1]
             /\ queries' = [queries EXCEPT ![h] =
                    Running(state.query_id, state.config, state.roles,
                            input.input_stream, "pending")]
             /\ ret' = Returned(Return("receive_inputs", h, "Ok"))
             /\ UNCHANGED <<calls, net, completion>>
        ELSE /\ queries' = [queries EXCEPT ![h] = state]
             /\ ret' = Returned([Return("receive_inputs", h, "StateError") EXCEPT
                           !.err = InvalidState(QueryStatus(state), "Running")])
             /\ UNCHANGED <<calls, net, completion, used>>

\* the executor task of helper h finishes with a result or a protocol error;
\* the task is held by the Running entry or by the CompletionHandle
executor_finish(h, o) ==
    /\ \/ /\ queries[h].tag = "Running"
          /\ queries[h].outcome = "pending"
          /\ queries' = [queries EXCEPT ![h].outcome = o]
          /\ UNCHANGED completion
       \/ /\ completion[h].tag = "Running"
          /\ completion[h].outcome = "pending"
          /\ completion' = [completion EXCEPT ![h].outcome = o]
          /\ UNCHANGED queries
    /\ ret' = RetNone
    /\ UNCHANGED <<calls, net, used>>

\* RunningQuery::try_complete : Some(result) once the task has finished
try_complete(running) == running.outcome

\* query_status that cannot take the registry lock while new_query or
\* complete is suspended on the same processor
query_status_blocked(h) ==
    LET removed == queries[h]
        state == IF removed.tag = "Running" /\ try_complete(removed) # "pending"
                 THEN Completed(try_complete(removed))
                 ELSE removed
    IN  /\ ~Suspended(h)
        /\ IF removed.tag = "Empty"
           THEN /\ ret' = Returned(Return("query_status", h, "NoSuchQuery"))
                /\ UNCHANGED <<queries, calls, net, completion, used>>
           ELSE /\ queries' = [queries EXCEPT ![h] = state]
                /\ ret' = Returned([Return("query_status", h, "Ok") EXCEPT
                              !.status = QueryStatus(state)])
                /\ UNCHANGED <<calls, net, completion, used>>

\* query_status that takes the state out and does not put it back
query_status_forgets(h) ==
    LET removed == queries[h]
        state == IF removed.tag = "Running" /\ try_complete(removed) # "pending"
                 THEN Completed(try_complete(removed))
                 ELSE removed
    IN  IF removed.tag = "Empty"
        THEN /\ ret' = Returned(Return("query_status", h, "NoSuchQuery"))
             /\ UNCHANGED <<queries, calls, net, completion, used>>
        ELSE /\ queries' = remove_query(queries, h)
             /\ ret' = Returned([Return("query_status", h, "Ok") EXCEPT
                           !.status = QueryStatus(state)])
             /\ UNCHANGED <<calls, net, completion, used>>

\* lines 257-270
query_status(h) ==
    LET removed == queries[h]
        state == IF removed.tag = "Running" /\ try_complete(removed) # "pending"
                 THEN Completed(try_complete(removed))
                 ELSE removed
    IN  IF removed.tag = "Empty"
        THEN /\ ret' = Returned(Return("query_status", h, "NoSuchQuery"))
             /\ UNCHANGED <<queries, calls, net, completion, used>>
        ELSE /\ queries' = [queries EXCEPT ![h] = state]
             /\ ret' = Returned([Return("query_status", h, "Ok") EXCEPT
                           !.status = QueryStatus(state)])
             /\ UNCHANGED <<calls, net, completion, used>>

\* `result.map_err(Into::into)` / `Ok(handle.await?)`
completion_result(h, o) ==
    [Return("complete", h, IF o = "Ok" THEN "Ok" ELSE "ExecutionError")
        EXCEPT !.outcome = o]

\* complete that does not put back an entry it cannot use
complete_begin_drops_state(h) ==
    LET state == queries[h]
    IN  IF state.tag = "Completed"
        THEN /\ queries' = remove_query(queries, h)
             /\ ret' = Returned(completion_result(h, state.outcome))
             /\ UNCHANGED <<calls, net, completion, used>>
        ELSE IF state.tag = "Running"
        THEN /\ queries' = [queries EXCEPT ![h] = AwaitingCompletion]
             /\ completion' = [completion EXCEPT ![h] = state]
             /\ ret' = RetNone
             /\ UNCHANGED <<calls, net, used>>
        ELSE IF state.tag # "Empty"
        THEN /\ queries' = remove_query(queries, h)
             /\ ret' = Returned([Return("complete", h, "StateError") EXCEPT
                           !.err = InvalidState(QueryStatus(state), "Running")])
             /\ UNCHANGED <<calls, net, completion, used>>
        ELSE /\ ret' = Returned(Return("complete", h, "NoSuchQuery"))
             /\ UNCHANGED <<queries, calls, net, completion, used>>

\* complete that returns the result of a Completed entry and leaves the
\* entry in the registry
complete_begin_keeps_completed(h) ==
    LET state == queries[h]
    IN  IF state.tag = "Completed"
        THEN /\ queries' = [queries EXCEPT ![h] = state]
             /\ ret' = Returned(completion_result(h, state.outcome))
             /\ UNCHANGED <<calls, net, completion, used>>
        ELSE IF state.tag = "Running"
        THEN /\ queries' = [queries EXCEPT ![h] = AwaitingCompletion]
             /\ completion' = [completion EXCEPT ![h] = state]
             /\ ret' = RetNone
             /\ UNCHANGED <<calls, net, used>>
        ELSE IF state.tag # "Empty"
        THEN /\ queries' = [queries EXCEPT ![h] = state]
             /\ ret' = Returned([Return("complete", h, "StateError") EXCEPT
                           !.err = InvalidState(QueryStatus(state), "Running")])
             /\ UNCHANGED <<calls, net, completion, used>>
        ELSE /\ ret' = Returned(Return("complete", h, "NoSuchQuery"))
             /\ UNCHANGED <<queries, calls, net, completion, used>>

\* lines 284-305: the critical section of complete
complete_begin(h) ==
    LET state == queries[h]
    IN  IF state.tag = "Completed"
        THEN /\ queries' = remove_query(queries, h)
             /\ ret' = Returned(completion_result(h, state.outcome))
             /\ UNCHANGED <<calls, net, completion, used>>
        ELSE IF state.tag = "Running"
        THEN /\ queries' = [queries EXCEPT ![h] = AwaitingCompletion]
             /\ completion' = [completion EXCEPT ![h] = state]
             /\ ret' = RetNone
             /\ UNCHANGED <<calls, net, used>>
        ELSE IF state.tag # "Empty"
        THEN /\ queries' = [queries EXCEPT ![h] = state]
             /\ ret' = Returned([Return("complete", h, "StateError") EXCEPT
                           !.err = InvalidState(QueryStatus(state), "Running")])
             /\ UNCHANGED <<calls, net, completion, used>>
        ELSE /\ ret' = Returned(Return("complete", h, "NoSuchQuery"))
             /\ UNCHANGED <<queries, calls, net, completion, used>>

\* complete whose handle has no guard: the result is returned and the
\* AwaitingCompletion entry stays
complete_resume_keeps(h) ==
    /\ completion[h].tag = "Running"
    /\ completion[h].outcome # "pending"
    /\ queries' = queries
    /\ completion' = [completion EXCEPT ![h] = Empty]
    /\ ret' = Returned(completion_result(h, completion[h].outcome))
    /\ UNCHANGED <<calls, net, used>>

\* line 307 with Handle::poll: the task is ready, the handle is consumed and
\* its RemoveQuery guard dropped
complete_resume(h) ==
    /\ completion[h].tag = "Running"
    /\ completion[h].outcome # "pending"
    /\ queries' = remove_query(queries, h)
    /\ completion' = [completion EXCEPT ![h] = Empty]
    /\ ret' = Returned(completion_result(h, completion[h].outcome))
    /\ UNCHANGED <<calls, net, used>>

\* a handle whose drop leaves the registry alone
complete_drop_keeps(h) ==
    /\ completion[h].tag = "Running"
    /\ queries' = queries
    /\ completion' = [completion EXCEPT ![h] = Empty]
    /\ ret' = RetNone
    /\ UNCHANGED <<calls, net, used>>

\* the future of complete is dropped while it awaits the handle
complete_drop(h) ==
    /\ completion[h].tag = "Running"
    /\ queries' = remove_query(queries, h)
    /\ completion' = [completion EXCEPT ![h] = Empty]
    /\ ret' = RetNone
    /\ UNCHANGED <<calls, net, used>>

(***************************************************************************)
(* The statuses that callers of query_status have seen.                    *)
(***************************************************************************)
Observe ==
    observed' =
        IF ret'.op = "query_status" /\ ret'.h = Watched /\ ret'.tag = "Ok"
        THEN [status |-> ret'.status, removed |-> FALSE]
        ELSE IF queries'[Watched].tag = "Empty" /\ observed.status # "none"
        THEN [observed EXCEPT !.removed = TRUE]
        ELSE observed

DirectRequests ==
    {PrepareQuery(QueryId, c, r) : c \in Configs, r \in RingAssignments}

QueryInputs == {[query_id |-> QueryId, input_stream |-> i] : i \in Inputs}

(***************************************************************************)
(* ReceiveBuffer (src/src/helpers/buffers/receive.rs)                      *)
(***************************************************************************)
\* payloads that arrive on one channel, over a whole run
MaxRecords == 3
\* payloads in one chunk handed to receive_messages
MaxChunk == 2
\* receive_request calls, over a whole run
MaxRequests == 3

MESSAGE_PAYLOAD_SIZE_BYTES == 8

Channels == { [role |-> "H2", gate |-> "x"], [role |-> "H3", gate |-> "x"] }

RecordIds == 0..(MaxRecords - 1)

\* two payloads that differ in every byte
Payloads ==
    { [i \in 1..MESSAGE_PAYLOAD_SIZE_BYTES |-> i],
      [i \in 1..MESSAGE_PAYLOAD_SIZE_BYTES |-> MESSAGE_PAYLOAD_SIZE_BYTES + i] }

NoPayload == << >>

VARIABLES
    inner,        \* inner[channel][record_id] : Requested(sender) / Received(payload)
    record_ids,   \* record_ids[channel] : the id the next arriving payload gets
    rx,           \* rx[s] : the s-th request and what its oneshot receiver got
    arrived,      \* arrived[channel] : the whole payloads that arrived, in order
    panicked      \* a panic has ended the buffer's life

EmptyMap == [x \in {} |-> x]

Put(f, k, v) == [x \in DOMAIN f \cup {k} |-> IF x = k THEN v ELSE f[x]]

Remove(f, k) == [x \in DOMAIN f \ {k} |-> f[x]]

Requested(sender) == [kind |-> "Requested", sender |-> sender, payload |-> NoPayload]

Received(payload) == [kind |-> "Received", sender |-> 0, payload |-> payload]

\* the buffer with the ends of the oneshot channels it has handed out
Buffer ==
    [inner |-> inner, record_ids |-> record_ids, rx |-> rx, panicked |-> panicked]

\* `.entry(channel_id).or_default()`
or_default(map, channel_id) ==
    IF channel_id \in DOMAIN map THEN map ELSE Put(map, channel_id, EmptyMap)

\* oneshot::Sender::send : the receiver of request `sender` gets the payload
send(b, sender, payload) == [b EXCEPT !.rx[sender].payload = payload]

\* receive_request that reads a Received slot and leaves it in the map
receive_request_keeps(b, channel_id, record_id, sender) ==
    LET map == or_default(b.inner, channel_id)
        entries == map[channel_id]
    IN  IF record_id \in DOMAIN entries
        THEN LET removed == entries[record_id]
                 after == [b EXCEPT !.inner =
                              Put(map, channel_id, Remove(entries, record_id))]
             IN  IF removed.kind = "Requested"
                 THEN [after EXCEPT !.panicked = TRUE]
                 ELSE send(b, sender, removed.payload)
        ELSE [b EXCEPT !.inner =
                 Put(map, channel_id, Put(entries, record_id, Requested(sender)))]

\* lines 36-50
receive_request(b, channel_id, record_id, sender) ==
    LET map == or_default(b.inner, channel_id)
        entries == map[channel_id]
    IN  IF record_id \in DOMAIN entries
        THEN LET removed == entries[record_id]
                 after == [b EXCEPT !.inner =
                              Put(map, channel_id, Remove(entries, record_id))]
             IN  IF removed.kind = "Requested"
                 THEN [after EXCEPT !.panicked = TRUE]
                 ELSE send(after, sender, removed.payload)
        ELSE [b EXCEPT !.inner =
                 Put(map, channel_id, Put(entries, record_id, Requested(sender)))]

\* `messages.chunks(MESSAGE_PAYLOAD_SIZE_BYTES)`
RECURSIVE chunks(_, _)
chunks(messages, size) ==
    IF Len(messages) = 0 THEN << >>
    ELSE IF Len(messages) <= size THEN << messages >>
    ELSE << SubSeq(messages, 1, size) >>
            \o chunks(SubSeq(messages, size + 1, Len(messages)), size)

\* the body of the loop of a receive_messages that skips a chunk shorter than a
\* payload
receive_message_drops_short(b, channel_id, msg) ==
    IF Len(msg) # MESSAGE_PAYLOAD_SIZE_BYTES
    THEN b
    ELSE LET offset == b.record_ids[channel_id]
             map == or_default(b.inner, channel_id)
             entries == map[channel_id]
             advanced == [b EXCEPT !.record_ids[channel_id] = offset + 1]
         IN  IF offset \in DOMAIN entries
             THEN LET removed == entries[offset]
                      after == [advanced EXCEPT !.inner =
                                   Put(map, channel_id, Remove(entries, offset))]
                  IN  IF removed.kind = "Requested"
                      THEN send(after, removed.sender, msg)
                      ELSE [after EXCEPT !.panicked = TRUE]
             ELSE [advanced EXCEPT !.inner =
                      Put(map, channel_id, Put(entries, offset, Received(msg)))]

\* the body of the loop of a receive_messages that goes to the next chunk
\* without advancing the offset when it has answered a request
receive_message_stays(b, channel_id, msg) ==
    IF Len(msg) # MESSAGE_PAYLOAD_SIZE_BYTES
    THEN [b EXCEPT !.panicked = TRUE]
    ELSE LET payload == msg
             offset == b.record_ids[channel_id]
             map == or_default(b.inner, channel_id)
             entries == map[channel_id]
             advanced == [b EXCEPT !.record_ids[channel_id] = offset + 1]
         IN  IF offset \in DOMAIN entries
             THEN LET removed == entries[offset]
                      after == [b EXCEPT !.inner =
                                   Put(map, channel_id, Remove(entries, offset))]
                  IN  IF removed.kind = "Requested"
                      THEN send(after, removed.sender, payload)
                      ELSE [after EXCEPT !.panicked = TRUE]
             ELSE [advanced EXCEPT !.inner =
                      Put(map, channel_id, Put(entries, offset, Received(payload)))]

\* lines 64-86: the body of the loop, for one chunk `msg`
receive_message(b, channel_id, msg) ==
    IF Len(msg) # MESSAGE_PAYLOAD_SIZE_BYTES
    THEN [b EXCEPT !.panicked = TRUE]
    ELSE LET payload == msg
             offset == b.record_ids[channel_id]
             map == or_default(b.inner, channel_id)
             entries == map[channel_id]
             advanced == [b EXCEPT !.record_ids[channel_id] = offset + 1]
         IN  IF offset \in DOMAIN entries
             THEN LET removed == entries[offset]
                      after == [b EXCEPT !.inner =
                                   Put(map, channel_id, Remove(entries, offset))]
                  IN  IF removed.kind = "Requested"
                      THEN [send(after, removed.sender, payload) EXCEPT
                               !.record_ids[channel_id] = offset + 1]
                      ELSE [after EXCEPT !.panicked = TRUE]
             ELSE [advanced EXCEPT !.inner =
                      Put(map, channel_id, Put(entries, offset, Received(payload)))]

RECURSIVE receive_loop(_, _, _)
receive_loop(b, channel_id, msgs) ==
    IF msgs = << >> \/ b.panicked THEN b
    ELSE receive_loop(receive_message(b, channel_id, Head(msgs)), channel_id,
                      Tail(msgs))

\* receive_messages that numbers the payloads of every chunk from 0
receive_messages_restarting(b, channel_id, messages) ==
    LET started == [b EXCEPT !.record_ids = Put(b.record_ids, channel_id, 0)]
    IN  receive_loop(started, channel_id,
                     chunks(messages, MESSAGE_PAYLOAD_SIZE_BYTES))

\* receive_messages that keeps one counter: the counters of the other
\* channels are dropped when a channel is served
receive_messages_one_counter(b, channel_id, messages) ==
    LET started == [b EXCEPT !.record_ids =
                       IF channel_id \in DOMAIN b.record_ids
                       THEN Put(EmptyMap, channel_id, b.record_ids[channel_id])
                       ELSE Put(EmptyMap, channel_id, 0)]
    IN  receive_loop(started, channel_id,
                     chunks(messages, MESSAGE_PAYLOAD_SIZE_BYTES))

\* lines 57-88
receive_messages(b, channel_id, messages) ==
    LET started == [b EXCEPT !.record_ids =
                       IF channel_id \in DOMAIN b.record_ids
                       THEN b.record_ids ELSE Put(b.record_ids, channel_id, 0)]
    IN  receive_loop(started, channel_id,
                     chunks(messages, MESSAGE_PAYLOAD_SIZE_BYTES))

InitBuf ==
    /\ inner = EmptyMap
    /\ record_ids = EmptyMap
    /\ rx = << >>
    /\ arrived = [c \in Channels |-> << >>]
    /\ panicked = FALSE

SetBuffer(b) ==
    /\ inner' = b.inner
    /\ record_ids' = b.record_ids
    /\ rx' = b.rx
    /\ panicked' = b.panicked

\* a caller asks for record_id on channel_id with a fresh oneshot channel
ReceiveRequest(channel_id, record_id) ==
    /\ ~panicked
    /\ Len(rx) < MaxRequests
    /\ LET sender == Len(rx) + 1
           waiting == [Buffer EXCEPT !.rx = Append(rx,
                          [channel |-> channel_id, record_id |-> record_id,
                           payload |-> NoPayload])]
       IN  SetBuffer(receive_request(waiting, channel_id, record_id, sender))
    /\ UNCHANGED arrived

RECURSIVE Flatten(_)
Flatten(seqs) == IF seqs = << >> THEN << >> ELSE Head(seqs) \o Flatten(Tail(seqs))

\* the byte chunks the transport may hand over: up to MaxChunk whole payloads,
\* then possibly the first half of one more
Messages ==
    { Flatten(ps) \o rest :
        ps \in UNION {[1..n -> Payloads] : n \in 0..MaxChunk},
        rest \in {<< >>} \cup
                 {SubSeq(p, 1, MESSAGE_PAYLOAD_SIZE_BYTES \div 2) : p \in Payloads} }

\* the transport delivers a byte chunk for channel_id
ReceiveMessages(channel_id, messages) ==
    /\ ~panicked
    /\ Len(arrived[channel_id]) + Len(messages) \div MESSAGE_PAYLOAD_SIZE_BYTES
          <= MaxRecords
    /\ SetBuffer(receive_messages(Buffer, channel_id, messages))
    /\ arrived' = [arrived EXCEPT ![channel_id] = @ \o
           SubSeq(chunks(messages, MESSAGE_PAYLOAD_SIZE_BYTES), 1,
                  Len(messages) \div MESSAGE_PAYLOAD_SIZE_BYTES)]

(***************************************************************************)
(* GatewayReceivers (src/src/helpers/gateway/receive.rs)                   *)
(***************************************************************************)
\* tasks that call get_or_create, each any number of times
MaxGetters == 2
\* Requested/Received entries one receiver may hold at a time
MaxSlots == 1

Getters == 1..MaxGetters

VARIABLES
    receivers,   \* receivers[channel] : the receiver stored in `inner`, by identity
    streams,     \* streams[id] : the shared state of the id-th receiver ctr() built
    getters,     \* getters[g] : where task g is inside get_or_create, what it got
    idle         \* whether check_idle_and_reset was called and what it returned last

\* UnorderedReceiver: every clone shares this state
UnorderedReceiver(channel_id) ==
    [channel |-> channel_id, slots |-> 0, active |-> FALSE]

\* UnorderedReceiver::check_idle_and_reset : no entries and no wakeup since the
\* last check; the activity flag is cleared
ur_is_idle(ur) == ur.slots = 0 /\ ~ur.active

ur_check_idle_and_reset(ur) == [ur EXCEPT !.active = FALSE]

NoGetter == [pc |-> "idle", channel |-> [role |-> "none", gate |-> "none"], got |-> 0]

\* the orders in which `self.inner.iter()` may visit the entries of the map
Orders(map) ==
    { o \in [1..Cardinality(DOMAIN map) -> DOMAIN map] :
        \A i, j \in DOMAIN o : i # j => o[i] # o[j] }

\* lines 78-80: the loop over the entries still to be visited, `rst &= ...`
RECURSIVE check_idle_loop(_, _, _, _)
check_idle_loop(rst, map, ss, entries) ==
    IF entries = << >> THEN [rst |-> rst, streams |-> ss]
    ELSE LET id == map[Head(entries)]
         IN  check_idle_loop(rst /\ ur_is_idle(ss[id]), map,
                             [ss EXCEPT ![id] = ur_check_idle_and_reset(ss[id])],
                             Tail(entries))

\* check_idle_and_reset that stops at the first receiver that is not idle
check_idle_and_reset_short_circuit(map, ss, entries) ==
    LET busy == { i \in DOMAIN entries : ~ur_is_idle(ss[map[entries[i]]]) }
        last == IF busy = {} THEN Len(entries)
                ELSE CHOOSE i \in busy : \A j \in busy : i <= j
    IN  [rst |-> busy = {},
         streams |-> [id \in DOMAIN ss |->
                         IF \E i \in 1..last : map[entries[i]] = id
                         THEN ur_check_idle_and_reset(ss[id]) ELSE ss[id]]]

\* lines 76-82
check_idle_and_reset(map, ss, entries) == check_idle_loop(TRUE, map, ss, entries)

\* lines 67-69: the lookup; a hit returns a clone of the stored receiver
get_or_create_get(g, channel_id) ==
    /\ getters[g].pc = "idle"
    /\ getters' = [getters EXCEPT ![g] =
          IF channel_id \in DOMAIN receivers
          THEN [pc |-> "done", channel |-> channel_id, got |-> receivers[channel_id]]
          ELSE [pc |-> "vacant", channel |-> channel_id, got |-> 0]]
    /\ UNCHANGED <<receivers, streams, idle>>

\* lines 71-73: after a miss, build the receiver, insert a clone, return it
get_or_create_insert(g) ==
    /\ getters[g].pc = "vacant"
    /\ LET stream == Len(streams) + 1
       IN  /\ streams' = Append(streams, UnorderedReceiver(getters[g].channel))
           /\ receivers' = Put(receivers, getters[g].channel, stream)
           /\ getters' = [getters EXCEPT ![g].pc = "done", ![g].got = stream]
    /\ UNCHANGED idle

\* the caller takes what get_or_create returned
get_or_create_return(g) ==
    /\ getters[g].pc = "done"
    /\ getters' = [getters EXCEPT ![g] = NoGetter]
    /\ UNCHANGED <<receivers, streams, idle>>

\* a request or an arrival on one receiver: its entries change and it is woken
ur_activity(id, slots) ==
    /\ id \in DOMAIN streams
    /\ streams' = [streams EXCEPT ![id].slots = slots, ![id].active = TRUE]
    /\ UNCHANGED <<receivers, getters, idle>>

\* a call of GatewayReceivers::check_idle_and_reset
CheckIdleAndReset(entries) ==
    /\ LET out == check_idle_and_reset(receivers, streams, entries)
       IN  /\ idle' = [called |-> TRUE, rst |-> out.rst]
           /\ streams' = out.streams
    /\ UNCHANGED <<receivers, getters>>

InitGw ==
    /\ receivers = EmptyMap
    /\ streams = << >>
    /\ getters = [g \in Getters |-> NoGetter]
    /\ idle = [called |-> FALSE, rst |-> FALSE]

(***************************************************************************)
(* Malicious shares                                                        *)
(* (src/src/secret_sharing/replicated/malicious/additive_share.rs)         *)
(***************************************************************************)
\* operations applied to the shares, over a whole run
MaxOps == 3

Fp31_PRIME == 31

Gf32Bit_BITS == 32

\* the low coefficients of the polynomial that Gf32Bit products are reduced by
Gf32Bit_POLYNOMIAL == {7, 3, 2, 0}

\* the fields V a malicious share is defined over: a prime field and Gf2
Fields == {"Fp31", "Gf2"}

\* an element of Fp31 is 0..30, of Gf2 is 0..1, of Gf32Bit the set of the
\* positions of its set bits (bit 0 is the least significant one)
Elements(F) ==
    IF F = "Fp31" THEN 0..(Fp31_PRIME - 1)
    ELSE IF F = "Gf2" THEN {0, 1}
    ELSE SUBSET (0..(Gf32Bit_BITS - 1))

f_zero(F) == IF F = "Gf32Bit" THEN {} ELSE 0

f_one(F) == IF F = "Gf32Bit" THEN {0} ELSE 1

\* bitwise exclusive or of two bit sets
xor(a, b) == (a \ b) \cup (b \ a)

\* the product of two binary polynomials, not reduced
clmul(a, b) ==
    { e \in 0..(2 * Gf32Bit_BITS - 2) :
        Cardinality({ i \in a : (e - i) \in b }) % 2 = 1 }

RECURSIVE reduce(_)
reduce(poly) ==
    IF \A e \in poly : e < Gf32Bit_BITS THEN poly
    ELSE LET top == CHOOSE e \in poly : \A d \in poly : d <= e
         IN  reduce(xor(poly \ {top},
                        { top - Gf32Bit_BITS + k : k \in Gf32Bit_POLYNOMIAL }))

f_add(F, a, b) ==
    IF F = "Fp31" THEN (a + b) % Fp31_PRIME
    ELSE IF F = "Gf2" THEN (a + b) % 2
    ELSE xor(a, b)

f_neg(F, a) ==
    IF F = "Fp31" THEN (Fp31_PRIME - a) % Fp31_PRIME ELSE a

f_sub(F, a, b) == f_add(F, a, f_neg(F, b))

f_mul(F, a, b) ==
    IF F = "Fp31" THEN (a * b) % Fp31_PRIME
    ELSE IF F = "Gf2" THEN a * b
    ELSE reduce(clmul(a, b))

\* Field::as_u128 of a Gf2 element
as_u128(a) == a

\* Gf32Bit::try_from(u128): the element with the bits of the integer
RECURSIVE Gf32Bit_try_from(_, _)
Gf32Bit_try_from(n, pos) ==
    IF n = 0 THEN {}
    ELSE (IF n % 2 = 1 THEN {pos} ELSE {}) \cup Gf32Bit_try_from(n \div 2, pos + 1)

\* ExtendableField::ExtendedField
ExtendedField(F) == IF F = "Gf2" THEN "Gf32Bit" ELSE F

\* to_extended that puts the bit of a Gf2 element in the most significant place
to_extended_msb(F, a) ==
    IF F = "Gf2"
    THEN { Gf32Bit_BITS - 1 - pos : pos \in Gf32Bit_try_from(as_u128(a), 0) }
    ELSE a

\* lines 45-65: ExtendableField::to_extended
to_extended(F, a) ==
    IF F = "Gf2" THEN Gf32Bit_try_from(as_u128(a), 0) ELSE a

\* Serializable::Size of a field element, in bytes
Size(F) == IF F = "Gf32Bit" THEN 4 ELSE 1

RECURSIVE byte_of(_, _)
byte_of(bits, k) ==
    IF k = 8 THEN 0
    ELSE (IF k \in bits THEN 1 ELSE 0) + 2 * byte_of(bits, k + 1)

\* Serializable for a field element: its integer, little endian
f_serialize(F, a) ==
    IF F = "Gf32Bit"
    THEN [k \in 1..Size(F) |-> byte_of({ pos - 8 * (k - 1) : pos \in a }, 0)]
    ELSE << a >>

f_deserialize(F, buf) ==
    IF F = "Gf32Bit"
    THEN UNION { { pos + 8 * (k - 1) : pos \in Gf32Bit_try_from(buf[k], 0) } :
                 k \in 1..Size(F) }
    ELSE IF F = "Fp31" THEN buf[1] % Fp31_PRIME
    ELSE buf[1] % 2

\* semi_honest::AdditiveShare: the pair (left, right) one helper holds
SemiHonestAdditiveShare(left, right) == [left |-> left, right |-> right]

sh_add(F, a, b) ==
    SemiHonestAdditiveShare(f_add(F, a.left, b.left), f_add(F, a.right, b.right))

sh_neg(F, a) == SemiHonestAdditiveShare(f_neg(F, a.left), f_neg(F, a.right))

sh_sub(F, a, b) ==
    SemiHonestAdditiveShare(f_sub(F, a.left, b.left), f_sub(F, a.right, b.right))

sh_mul(F, a, c) ==
    SemiHonestAdditiveShare(f_mul(F, a.left, c), f_mul(F, a.right, c))

\* Serializable::Size of a semi-honest share
sh_Size(F) == 2 * Size(F)

sh_serialize(F, a) == f_serialize(F, a.left) \o f_serialize(F, a.right)

sh_deserialize(F, buf) ==
    SemiHonestAdditiveShare(
        f_deserialize(F, SubSeq(buf, 1, Size(F))),
        f_deserialize(F, SubSeq(buf, Size(F) + 1, 2 * Size(F))))

\* IntoShares for a field element: the three pieces x1, x2, v - x1 - x2, helper
\* i holding (x_i, x_{i+1})
share_with(F, v, x1, x2) ==
    LET x3 == f_sub(F, f_sub(F, v, x1), x2)
    IN  << SemiHonestAdditiveShare(x1, x2),
           SemiHonestAdditiveShare(x2, x3),
           SemiHonestAdditiveShare(x3, x1) >>

\* Reconstruct for three semi-honest shares
reconstruct(F, s) == f_add(F, f_add(F, s[1].left, s[2].left), s[3].left)

VARIABLES
    field,           \* the field V of the shares
    randomization,   \* the randomization constant r, an element of the extension
    acc,             \* acc[i] : the malicious share helper i has computed so far
    expected,        \* the same expression computed on the shared values
    ops,             \* the operations applied so far
    result           \* what the last operation was given and what it returned

\* lines 111-116: AdditiveShare::new
AdditiveShare(x_share, rx_share) == [x |-> x_share, rx |-> rx_share]

\* lines 130-133: AdditiveShare::ZERO
ZERO(F) ==
    AdditiveShare(SemiHonestAdditiveShare(f_zero(F), f_zero(F)),
                  SemiHonestAdditiveShare(f_zero(ExtendedField(F)),
                                          f_zero(ExtendedField(F))))

\* lines 136-161: Add and AddAssign
add(F, lhs, rhs) ==
    AdditiveShare(sh_add(F, lhs.x, rhs.x),
                  sh_add(ExtendedField(F), lhs.rx, rhs.rx))

\* negation that leaves rx as it is
neg_keeps_rx(F, share) == AdditiveShare(sh_neg(F, share.x), share.rx)

\* lines 163-172: Neg
neg(F, share) ==
    AdditiveShare(sh_neg(F, share.x), sh_neg(ExtendedField(F), share.rx))

\* lines 174-198: Sub and SubAssign
sub(F, lhs, rhs) ==
    AdditiveShare(sh_sub(F, lhs.x, rhs.x),
                  sh_sub(ExtendedField(F), lhs.rx, rhs.rx))

\* lines 200-209: Mul<V>
mul(F, share, rhs) ==
    AdditiveShare(sh_mul(F, share.x, rhs),
                  sh_mul(ExtendedField(F), share.rx, to_extended(F, rhs)))

\* lines 226-231: the buffer is split at the size of x; x fills the left part
\* and rx the right part
serialize(F, share) ==
    sh_serialize(F, share.x) \o sh_serialize(ExtendedField(F), share.rx)

\* GenericArray::from_slice panics on a slice that has not the array's length
from_slice(slice, length) ==
    [ok |-> Len(slice) = length, bytes |-> slice]

\* lines 233-244: x from the bytes before the size of x, rx from the bytes from
\* the size of rx on
deserialize(F, buf) ==
    LET x_slice == from_slice(SubSeq(buf, 1, sh_Size(F)), sh_Size(F))
        rx_slice == from_slice(SubSeq(buf, sh_Size(ExtendedField(F)) + 1, Len(buf)),
                               sh_Size(ExtendedField(F)))
    IN  IF x_slice.ok /\ rx_slice.ok
        THEN [ok |-> TRUE,
              share |-> AdditiveShare(
                            sh_deserialize(F, x_slice.bytes),
                            sh_deserialize(ExtendedField(F), rx_slice.bytes))]
        ELSE [ok |-> FALSE, share |-> ZERO(F)]

\* lines 83-88: UnauthorizedDowngradeWrapper
UnauthorizedDowngradeWrapper(v) == << v >>

\* lines 314-318: access_without_downgrade
access_without_downgrade(wrapper) == wrapper[1]

\* downgrade that hands out x with its two parts exchanged
downgrade_exchanged(share) ==
    UnauthorizedDowngradeWrapper(
        SemiHonestAdditiveShare(share.x.right, share.x.left))

\* lines 122-124 and 247-253: AdditiveShare::downgrade, Downgrade for AdditiveShare
downgrade(share) == UnauthorizedDowngradeWrapper(share.x)

\* lines 255-261: Downgrade for SemiHonestAdditiveShare
downgrade_semi_honest(share) == UnauthorizedDowngradeWrapper(share)

\* the values that are shared
Values(F) == IF F = "Fp31" THEN {4, 30} ELSE {0, 1}

\* the field elements a malicious share is multiplied by
Scalars(F) == IF F = "Fp31" THEN {0, 2, 6} ELSE {0, 1}

\* the random pieces (x1, x2) that share_with draws
Pieces(F) ==
    IF F = "Fp31" THEN { <<7, 29>>, <<0, 13>> }
    ELSE IF F = "Gf2" THEN { <<0, 1>>, <<1, 1>> }
    ELSE { << {0, 31}, {5} >>, << {}, {1, 2, 3} >> }

\* the randomization constants
Randomizations(F) ==
    IF ExtendedField(F) = "Fp31" THEN {3, 17} ELSE { {1, 31}, {0, 4, 9} }

\* a value v with the three malicious shares of it: x shares v and rx shares
\* r * v (tests::test_local_operations, lines 350-384)
Operands(F, r) ==
    { [v |-> v,
       shares |-> LET xs == share_with(F, v, p[1], p[2])
                      rxs == share_with(ExtendedField(F),
                                 f_mul(ExtendedField(F), r, to_extended(F, v)),
                                 q[1], q[2])
                  IN  [i \in 1..3 |-> AdditiveShare(xs[i], rxs[i])]] :
      v \in Values(F), p \in Pieces(F), q \in Pieces(ExtendedField(F)) }

NoResult == [op |-> "none"]

InitShares(F, r) ==
    /\ field = F
    /\ randomization = r
    /\ acc = [i \in 1..3 |-> ZERO(F)]
    /\ expected = f_zero(F)
    /\ ops = << >>
    /\ result = NoResult

\* every helper adds its share of the operand to what it has
Add(operand) ==
    /\ Len(ops) < MaxOps
    /\ acc' = [i \in 1..3 |-> add(field, acc[i], operand.shares[i])]
    /\ expected' = f_add(field, expected, operand.v)
    /\ ops' = Append(ops, "add")
    /\ result' = NoResult
    /\ UNCHANGED <<field, randomization>>

Sub(operand) ==
    /\ Len(ops) < MaxOps
    /\ acc' = [i \in 1..3 |-> sub(field, acc[i], operand.shares[i])]
    /\ expected' = f_sub(field, expected, operand.v)
    /\ ops' = Append(ops, "sub")
    /\ result' = NoResult
    /\ UNCHANGED <<field, randomization>>

Neg ==
    /\ Len(ops) < MaxOps
    /\ acc' = [i \in 1..3 |-> neg(field, acc[i])]
    /\ expected' = f_neg(field, expected)
    /\ ops' = Append(ops, "neg")
    /\ result' = NoResult
    /\ UNCHANGED <<field, randomization>>

Mul(c) ==
    /\ Len(ops) < MaxOps
    /\ acc' = [i \in 1..3 |-> mul(field, acc[i], c)]
    /\ expected' = f_mul(field, expected, c)
    /\ ops' = Append(ops, "mul")
    /\ result' = [op |-> "mul", scalar |-> c, before |-> acc]
    /\ UNCHANGED <<field, randomization>>

\* every helper serializes its share and reads it back
SerializeDeserialize ==
    /\ result' = [op |-> "serialize",
                  bytes |-> [i \in 1..3 |-> serialize(field, acc[i])],
                  back |-> [i \in 1..3 |->
                               deserialize(field, serialize(field, acc[i]))]]
    /\ UNCHANGED <<field, randomization, acc, expected, ops>>

\* every helper downgrades its share, and its rx share as a semi-honest share
Downgrade ==
    /\ result' = [op |-> "downgrade",
                  malicious |-> [i \in 1..3 |->
                      access_without_downgrade(downgrade(acc[i]))],
                  semi_honest |-> [i \in 1..3 |->
                      access_without_downgrade(downgrade_semi_honest(acc[i].rx))]]
    /\ UNCHANGED <<field, randomization, acc, expected, ops>>

(***************************************************************************)
(* Sharing of composite values (secret_sharing/into_shares.rs)             *)
(***************************************************************************)
\* the longest sequence of values that is shared
MaxLen == 3

VARIABLES
    shared   \* the last composite value that was shared, the pieces the random
             \* source gave, and the three collections share_with returned

\* the random source hands its pieces to the share_with calls in the order of
\* the calls: the k-th call is given draws[k]

\* vec_shares with the positions of the input in reverse order
vec_shares_reversed(F, values, draws) ==
    LET n == Len(values)
        v == [k \in 1..n |-> share_with(F, values[k], draws[k][1], draws[k][2])]
    IN  << [k \in 1..n |-> v[n + 1 - k][1]],
           [k \in 1..n |-> v[n + 1 - k][2]],
           [k \in 1..n |-> v[n + 1 - k][3]] >>

\* vec_shares: every value is shared in turn into [v0, v1, v2], and the
\* sequence of triples is unzipped into the three sequences [i0, i1, i2]
vec_shares(F, values, draws) ==
    LET n == Len(values)
        v == [k \in 1..n |-> share_with(F, values[k], draws[k][1], draws[k][2])]
    IN  << [k \in 1..n |-> v[k][1]],
           [k \in 1..n |-> v[k][2]],
           [k \in 1..n |-> v[k][3]] >>

\* IntoShares<(T, U)> for (V, W): the first component is shared, then the
\* second, and helper j is given the pair of the j-th shares
tuple_share_with(F, G, pair, draws) ==
    LET a == share_with(F, pair[1], draws[1][1], draws[1][2])
        b == share_with(G, pair[2], draws[2][1], draws[2][2])
    IN  << <<a[1], b[1]>>, <<a[2], b[2]>>, <<a[3], b[3]>> >>

\* Reconstruct for three sequences of shares: position by position
reconstruct_vec(F, s) ==
    [k \in 1..Len(s[1]) |-> reconstruct(F, << s[1][k], s[2][k], s[3][k] >>)]

\* Reconstruct for three pairs of shares: component by component
reconstruct_tuple(F, G, s) ==
    << reconstruct(F, << s[1][1], s[2][1], s[3][1] >>),
       reconstruct(G, << s[1][2], s[2][2], s[3][2] >>) >>

\* the sequences of at most n elements of S
SeqUpTo(S, n) == UNION { [1..k -> S] : k \in 0..n }

InitInto == shared = [op |-> "none"]

\* IntoShares<Vec<T>> for an iterator: a sequence of values of F is shared
ShareVec(F, values, draws) ==
    /\ Len(draws) = Len(values)
    /\ shared' = [op |-> "vec", F |-> F, input |-> values, draws |-> draws,
                  shares |-> vec_shares(F, values, draws)]

\* a pair of a value of F and a value of G is shared (tests::tuple)
ShareTuple(F, G, pair, draws) ==
    /\ shared' = [op |-> "tuple", F |-> F, G |-> G, input |-> pair,
                  draws |-> draws,
                  shares |-> tuple_share_with(F, G, pair, draws)]

(***************************************************************************)
(* The generator of synthetic events (bin/ipa_bench/gen_events.rs)         *)
(***************************************************************************)
\* the largest total_count asked for
MaxCount == 3

RECORD_SEPARATOR == 30

SECONDS_IN_EPOCH == 604800

\* the two runs of the generator that are compared
Runs == 1..2

VARIABLES
    gen_input,   \* what both runs are given: sample, total_count, epoch, seed
    gen          \* gen[k] : the locals, the random source and the output of run k

\* StdRng::seed_from_u64: the state of the random source is a function of the
\* seed alone
StdRng_seed_from_u64(seed) == (seed * 37 + 11) % 64

\* the state of the random source after one more number has been taken
StdRng_step(rng) == (5 * rng + 3) % 64

\* rng.gen_range(lo..=hi): the number taken and the source after it
gen_range(rng, lo, hi) ==
    [value |-> lo + ((StdRng_step(rng) \div 4) % (hi - lo + 1)),
     rng |-> StdRng_step(rng)]

\* rng.gen::<u32>() and rng.gen::<MatchKey>(), in a range of sixteen numbers
rng_gen(rng) == gen_range(rng, 0, 15)

\* Sample::reach_per_ad, cvr_per_ad_account (in sixteenths),
\* impression_per_user, conversion_per_user, conversion_value_per_ad,
\* impressions_time_diff and conversions_time_diff: a distribution of the
\* sample is a range lo..hi, and a sampling takes one number from the random
\* source it is handed
Sample_draw(distribution, rng) ==
    gen_range(rng, distribution[1], distribution[2])

\* Bernoulli::new(cvr).sample(rng)
Bernoulli_sample(cvr, rng) ==
    [value |-> rng_gen(rng).value < cvr, rng |-> rng_gen(rng).rng]

\* GenericReport::Source with its Event
Source(matchkey, timestamp, breakdown_key) ==
    [tag |-> "Source",
     event |-> [matchkey |-> matchkey, attribution_constraint_id |-> "None",
                timestamp |-> timestamp],
     number |-> breakdown_key]

\* GenericReport::Trigger with its Event
Trigger(matchkey, timestamp, value) ==
    [tag |-> "Trigger",
     event |-> [matchkey |-> matchkey, attribution_constraint_id |-> "None",
                timestamp |-> timestamp],
     number |-> value]

\* serde_json::to_string of a report: the variant, then the fields of the
\* event in the order of their declaration, then the field of the variant
to_string(report) ==
    << report.tag, "event", "matchkey", report.event.matchkey,
       "attribution_constraint_id", "null",
       "timestamp", report.event.timestamp,
       IF report.tag = "Source" THEN "breakdown_key" ELSE "value",
       report.number >>

\* lines 100-112: the loop over the impressions of one user
RECURSIVE gen_sources(_, _, _, _, _, _)
gen_sources(n, matchkey, last_impression, breakdown_key, sample, rng) ==
    IF n = 0
    THEN [reports |-> << >>, last |-> last_impression, rng |-> rng]
    ELSE LET d == Sample_draw(sample.impression_impression_duration, rng)
             t == last_impression + d.value
             rest == gen_sources(n - 1, matchkey, t, breakdown_key, sample, d.rng)
         IN  [reports |-> << Source(matchkey, t, breakdown_key) >>
                          \o rest.reports,
              last |-> rest.last,
              rng |-> rest.rng]

\* lines 118-131: the loop over the conversions of one user
RECURSIVE gen_triggers(_, _, _, _, _)
gen_triggers(n, matchkey, last_conversion, sample, rng) ==
    IF n = 0
    THEN [reports |-> << >>, rng |-> rng]
    ELSE LET v == Sample_draw(sample.conversion_value_per_user, rng)
             d == Sample_draw(sample.impression_conversion_duration, v.rng)
             t == last_conversion + d.value
             rest == gen_triggers(n - 1, matchkey, t, sample, d.rng)
         IN  [reports |-> << Trigger(matchkey, t, v.value) >>
                          \o rest.reports,
              rng |-> rest.rng]

gen_reports(impressions, conversions, epoch, breakdown_key, sample, rng) ==
    LET matchkey == rng_gen(rng)
        base_epoch == epoch * SECONDS_IN_EPOCH
        first == gen_range(matchkey.rng, 0, 15)
        sources == gen_sources(impressions, matchkey.value,
                               base_epoch + first.value, breakdown_key,
                               sample, first.rng)
        triggers == gen_triggers(conversions, matchkey.value, sources.last,
                                 sample, sources.rng)
    IN  [reports |-> sources.reports \o triggers.reports, rng |-> triggers.rng]

NoRun ==
    [pc |-> "none", rng |-> 0, ad_id |-> 0, reach |-> 0, cvr |-> 0,
     events |-> << >>, out |-> << >>, event_count |-> 0,
     total_impressions |-> 0, total_conversions |-> 0]

\* the sample configurations
Samples ==
    { [reach_per_ad |-> <<1, 2>>, cvr_per_ad |-> <<4, 12>>,
       impression_per_user |-> <<1, 2>>, conversion_per_user |-> <<1, 2>>,
       conversion_value_per_user |-> <<0, 5>>,
       impression_impression_duration |-> <<1, 4>>,
       impression_conversion_duration |-> <<0, 3>>],
      [reach_per_ad |-> <<1, 1>>, cvr_per_ad |-> <<0, 16>>,
       impression_per_user |-> <<1, 1>>, conversion_per_user |-> <<1, 3>>,
       conversion_value_per_user |-> <<1, 9>>,
       impression_impression_duration |-> <<2, 2>>,
       impression_conversion_duration |-> <<1, 7>>] }

GenInputs ==
    [sample : Samples, total_count : 0..MaxCount, epoch : {0, 1},
     seed : {0, 1, 42}]

InitGen(input) ==
    /\ gen_input = input
    /\ gen = [k \in Runs |-> NoRun]

\* lines 214-218: a random source is made from the seed and generate_events
\* is called with it (lines 23-26)
generate_events_begin(k) ==
    /\ gen[k].pc = "none"
    /\ gen' = [gen EXCEPT ![k] = [NoRun EXCEPT !.pc = "ad",
                                               !.rng = StdRng_seed_from_u64(gen_input.seed)]]
    /\ UNCHANGED gen_input

\* an ad whose id does not come from the random source handed in
generate_events_ad_unseeded(k) ==
    /\ gen[k].pc = "ad"
    /\ LET ad_id == rng_gen(gen[k].rng)
           reach == Sample_draw(gen_input.sample.reach_per_ad, ad_id.rng)
           cvr == Sample_draw(gen_input.sample.cvr_per_ad, reach.rng)
       IN  gen' = [gen EXCEPT ![k].ad_id = (ad_id.value + k) % 16,
                              ![k].reach = reach.value,
                              ![k].cvr = cvr.value,
                              ![k].rng = cvr.rng,
                              ![k].pc = IF reach.value = 0 THEN "ad" ELSE "user"]
    /\ UNCHANGED gen_input

\* lines 32-45: the head of the loop over the ads
generate_events_ad(k) ==
    /\ gen[k].pc = "ad"
    /\ LET ad_id == rng_gen(gen[k].rng)
           reach == Sample_draw(gen_input.sample.reach_per_ad, ad_id.rng)
           cvr == Sample_draw(gen_input.sample.cvr_per_ad, reach.rng)
       IN  gen' = [gen EXCEPT ![k].ad_id = ad_id.value,
                              ![k].reach = reach.value,
                              ![k].cvr = cvr.value,
                              ![k].rng = cvr.rng,
                              ![k].pc = IF reach.value = 0 THEN "ad" ELSE "user"]
    /\ UNCHANGED gen_input

\* where the loops go on when the events of a user are written: to the next
\* user of the ad or to the next ad
after_user(reach) == IF reach > 1 THEN "user" ELSE "ad"

\* lines 47-63: one user of the ad, up to the loop that writes the events
generate_events_user(k) ==
    /\ gen[k].pc = "user"
    /\ LET impressions == Sample_draw(gen_input.sample.impression_per_user,
                                      gen[k].rng)
           converted == Bernoulli_sample(gen[k].cvr, impressions.rng)
           conversions ==
               IF converted.value
               THEN Sample_draw(gen_input.sample.conversion_per_user, converted.rng)
               ELSE [value |-> 0, rng |-> converted.rng]
           events == gen_reports(impressions.value, conversions.value,
                                 gen_input.epoch, gen[k].ad_id,
                                 gen_input.sample, conversions.rng)
       IN  gen' = [gen EXCEPT
                ![k].rng = events.rng,
                ![k].events = events.reports,
                ![k].total_impressions = @ + impressions.value,
                ![k].total_conversions = @ + conversions.value,
                ![k].reach = IF events.reports = << >> THEN @ - 1 ELSE @,
                ![k].pc = IF events.reports = << >>
                          THEN after_user(gen[k].reach) ELSE "write"]
    /\ UNCHANGED gen_input

\* lines 65-78: one event is written; the function returns the totals when
\* the count has reached total_count
generate_events_write(k) ==
    /\ gen[k].pc = "write"
    /\ LET e == Head(gen[k].events)
           written == << RECORD_SEPARATOR >> \o to_string(e) \o << "\n" >>
           event_count == gen[k].event_count + 1
           left == Tail(gen[k].events)
       IN  gen' = [gen EXCEPT
                ![k].out = Append(@, written),
                ![k].event_count = event_count,
                ![k].events = left,
                ![k].reach = IF event_count < gen_input.total_count /\ left = << >>
                             THEN @ - 1 ELSE @,
                ![k].pc = IF event_count >= gen_input.total_count THEN "done"
                          ELSE IF left # << >> THEN "write"
                          ELSE after_user(gen[k].reach)]
    /\ UNCHANGED gen_input

\* what generate_events has returned
generate_events_result(k) ==
    << gen[k].total_impressions, gen[k].total_conversions >>

(***************************************************************************)
(* Specifications                                                          *)
(***************************************************************************)
procvars == <<queries, calls, net, completion, ret, observed, used>>

bufvars == <<inner, record_ids, rx, arrived, panicked>>

gwvars == <<receivers, streams, getters, idle>>

sharevars == <<field, randomization, acc, expected, ops, result>>

intovars == <<shared>>

genvars == <<gen_input, gen>>

vars == <<procvars, bufvars, gwvars, sharevars, intovars, genvars>>

InitProc ==
    /\ queries = [h \in Helpers |-> Empty]
    /\ calls = [c \in Calls |-> NoCall]
    /\ net = {}
    /\ completion = [h \in Helpers |-> Empty]
    /\ ret = RetNone
    /\ observed = [status |-> "none", removed |-> FALSE]
    /\ used = [direct |-> 0, inputs |-> 0]

Init ==
    /\ InitProc
    /\ InitBuf
    /\ InitGw
    /\ InitShares("Fp31", CHOOSE r \in Randomizations("Fp31") : TRUE)
    /\ InitInto
    /\ InitGen(CHOOSE input \in GenInputs : TRUE)

Next ==
    /\ \/ \E h \in Helpers, req \in Configs : new_query_begin(h, req)
       \/ \E c \in Calls : new_query_resume(c)
       \/ \E c \in Calls : new_query_drop(c)
       \/ \E m \in net : prepare_delivered(m)
       \/ \E h \in Helpers, req \in DirectRequests : prepare_direct(h, req)
       \/ \E m \in net : prepare_set(m)
       \/ \E m \in net : send_unreachable(m)
       \/ \E h \in Helpers, input \in QueryInputs : receive_inputs(h, input)
       \/ \E h \in Helpers, o \in Outcomes : executor_finish(h, o)
       \/ \E h \in Helpers : query_status(h)
       \/ \E h \in Helpers : complete_begin(h)
       \/ \E h \in Helpers : complete_resume(h)
       \/ \E h \in Helpers : complete_drop(h)
    /\ Observe
    /\ UNCHANGED <<bufvars, gwvars, sharevars, intovars, genvars>>

\* the three processors and the transport between them
Spec == Init /\ [][Next]_vars

NextBuf ==
    /\ \/ \E c \in Channels, r \in RecordIds : ReceiveRequest(c, r)
       \/ \E c \in Channels, m \in Messages : ReceiveMessages(c, m)
    /\ UNCHANGED <<procvars, gwvars, sharevars, intovars, genvars>>

\* one ReceiveBuffer, its callers and the chunks the transport hands over
SpecBuf == Init /\ [][NextBuf]_vars

\* the transport hands over a chunk of whole payloads for channel_id
Deliver(channel_id) ==
    /\ \E m \in Messages :
          /\ Len(m) % MESSAGE_PAYLOAD_SIZE_BYTES = 0
          /\ ReceiveMessages(channel_id, m)
    /\ UNCHANGED <<procvars, gwvars, sharevars, intovars, genvars>>

\* the same buffer with a transport that keeps delivering on every channel as
\* long as it has payloads for it
SpecBufLive == SpecBuf /\ \A c \in Channels : WF_vars(Deliver(c))

NextGw ==
    /\ \/ \E g \in Getters, c \in Channels : get_or_create_get(g, c)
       \/ \E g \in Getters : get_or_create_insert(g)
       \/ \E g \in Getters : get_or_create_return(g)
       \/ \E id \in DOMAIN streams, n \in 0..MaxSlots : ur_activity(id, n)
       \/ \E entries \in Orders(receivers) : CheckIdleAndReset(entries)
    /\ UNCHANGED <<procvars, bufvars, sharevars, intovars, genvars>>

\* the receivers of one gateway, the tasks that ask for them and the idle check
SpecGw == Init /\ [][NextGw]_vars

NextShares ==
    /\ \/ \E operand \in Operands(field, randomization) : Add(operand)
       \/ \E operand \in Operands(field, randomization) : Sub(operand)
       \/ Neg
       \/ \E c \in Scalars(field) : Mul(c)
       \/ SerializeDeserialize
       \/ Downgrade
    /\ UNCHANGED <<procvars, bufvars, gwvars, intovars, genvars>>

\* the shares start from ZERO, over either field and with either constant
InitAnyShares ==
    /\ InitProc
    /\ InitBuf
    /\ InitGw
    /\ \E F \in Fields : \E r \in Randomizations(F) : InitShares(F, r)
    /\ InitInto
    /\ InitGen(CHOOSE input \in GenInputs : TRUE)

\* three helpers computing on malicious shares, each on its own shares
SpecShares == InitAnyShares /\ [][NextShares]_vars

NextInto ==
    /\ \/ \E F \in Fields :
             \E values \in SeqUpTo(Values(F), MaxLen) :
                \E draws \in [1..Len(values) -> Pieces(F)] :
                   ShareVec(F, values, draws)
       \/ \E F \in Fields, G \in Fields :
             \E pair \in Values(F) \X Values(G) :
                \E draws \in Pieces(F) \X Pieces(G) :
                   ShareTuple(F, G, pair, draws)
    /\ UNCHANGED <<procvars, bufvars, gwvars, sharevars, genvars>>

\* sequences and pairs of values shared with pieces from a random source
SpecInto == Init /\ [][NextInto]_vars

NextGen ==
    /\ \/ \E k \in Runs : generate_events_begin(k)
       \/ \E k \in Runs : generate_events_ad(k)
       \/ \E k \in Runs : generate_events_user(k)
       \/ \E k \in Runs : generate_events_write(k)
    /\ UNCHANGED <<procvars, bufvars, gwvars, sharevars, intovars>>

\* the generator is given any sample, count, epoch and seed
InitAnyGen ==
    /\ InitProc
    /\ InitBuf
    /\ InitGw
    /\ InitShares("Fp31", CHOOSE r \in Randomizations("Fp31") : TRUE)
    /\ InitInto
    /\ \E input \in GenInputs : InitGen(input)

\* two runs of generate_events with the same arguments and the same seed
SpecGen == InitAnyGen /\ [][NextGen]_vars

(***************************************************************************)
(* Properties of the query processor (checked under Spec)                  *)
(***************************************************************************)

\* C1: when new_query has inserted Preparing and the broadcast fails (a peer
\* rejects the PrepareQuery or is unreachable), new_query returns a Transport
\* error and the coordinator's registry holds no entry, so that a following
\* new_query passes its set_state(Preparing).
C1_FailedNewQueryLeavesNoEntry ==
    (/\ ret.op = "new_query"
     /\ ret.call # 0
     /\ \E p \in Helpers : ret.ack[p] \in {"rejected", "unreachable"})
    => /\ ret.tag = "Transport"
       /\ queries[ret.h] = Empty
       /\ \A c \in Configs : set_state(ret.h, Preparing(c)).err = NoError

\* new_query has just failed: one peer had accepted, the other rejected
C1_Witness ==
    /\ ret.op = "new_query"
    /\ ret.tag = "Transport"
    /\ \E p, f \in Helpers : ret.ack[p] = "ok" /\ ret.ack[f] = "rejected"

\* C2: after new_query failed with Transport while one peer had accepted the
\* PrepareQuery, a retry succeeds as soon as the failing peer accepts: every
\* peer that accepted the failed attempt accepts the same PrepareQuery again
\* (its role is not H1 and its registry holds no entry for the query id).
C2_RetryAfterFailureSucceeds ==
    (ret.op = "new_query" /\ ret.tag = "Transport")
    => \A p \in Helpers :
          ret.ack[p] = "ok"
          => role(ret.req.roles, p) # "H1" /\ status(p) = "None"

\* the place of a status in [Preparing, AwaitingInputs, Running,
\* AwaitingCompletion, Completed]
Rank(s) ==
    CASE s = "Preparing" -> 1
      [] s = "AwaitingInputs" -> 2
      [] s = "Running" -> 3
      [] s = "AwaitingCompletion" -> 4
      [] s = "Completed" -> 5
      [] OTHER -> 0

C6_StatusDuringNewQuery ==
    /\ (/\ ret.op = "query_status"
        /\ \E c \in Calls : calls[c].pc = "sending" /\ calls[c].h = ret.h)
       => (ret.tag = "Ok" /\ ret.status = "Preparing")
    /\ (/\ ret.op = "new_query"
        /\ ret.call # 0
        /\ \A p \in Helpers : ret.ack[p] \in {"none", "ok"})
       => (ret.tag = "Ok" /\ QueryStatus(queries[ret.h]) = "AwaitingInputs")

\* C7: the roles of a new_query make the caller H1, its right neighbour H2 and
\* its left neighbour H3, a bijection of helpers and roles; both peers are sent
\* the same PrepareQuery, and it is the one returned to the caller.
C7_RolesFollowTheRing ==
    /\ \A c \in Calls :
          calls[c].pc = "sending"
          => LET id == calls[c].h
                 r == calls[c].req.roles
             IN  /\ r[id] = "H1"
                 /\ r[(id % 3) + 1] = "H2"
                 /\ r[((id + 1) % 3) + 1] = "H3"
                 /\ {r[h] : h \in Helpers} = Roles
                 /\ \A m \in net : m.call = c => m.req = calls[c].req
                 /\ \A p \in Helpers \ {id} :
                       /\ calls[c].ack[p] # "none"
                       /\ calls[c].ack[p] = "pending"
                          => \E m \in net : m.call = c /\ m.to = p
    /\ (ret.op = "new_query" /\ ret.tag = "Ok")
       => /\ ret.req.roles[ret.h] = "H1"
          /\ ret.req.roles[(ret.h % 3) + 1] = "H2"
          /\ ret.req.roles[((ret.h + 1) % 3) + 1] = "H3"
          /\ ret.req.query_id = QueryId
          /\ ret.req.config \in Configs

\* new_query has returned Ok with its PrepareQuery
C7_Witness ==
    /\ ret.op = "new_query"
    /\ ret.tag = "Ok"

C9_DuplicateNewQueryRejected ==
    [][ \A h \in Helpers :
           queries[h].tag \notin {"Empty", "Completed"}
           => /\ \A c \in Calls :
                    (calls[c].pc = "unused" /\ calls'[c].pc = "sending")
                    => calls'[c].h # h
              /\ (ret'.op = "new_query" /\ ret'.h = h /\ ret'.call = 0)
                 => /\ ret'.tag = "State"
                    /\ ret'.err = AlreadyRunning
                    /\ net' = net
                    /\ queries' = queries ]_vars

\* a second new_query was rejected while the first is still Preparing
C9_Witness ==
    /\ ret.op = "new_query"
    /\ ret.err = AlreadyRunning
    /\ queries[ret.h].tag = "Preparing"
    /\ \E c \in Calls : calls[c].pc = "sending" /\ calls[c].h = ret.h

\* C10: a prepare whose request gives the helper itself the role H1 returns
\* WrongTarget and leaves the registry unchanged, whatever it holds.
C10_CoordinatorRejectsPrepare ==
    [][ (ret'.op = "prepare" /\ role(ret'.req.roles, ret'.h) = "H1")
        => (ret'.tag = "WrongTarget" /\ queries' = queries) ]_vars

\* prepare has returned WrongTarget on a helper whose registry holds an entry
C10_Witness ==
    /\ ret.op = "prepare"
    /\ ret.tag = "WrongTarget"
    /\ queries[ret.h].tag # "Empty"

(***************************************************************************)
(* Properties of the receive buffer (checked under SpecBuf)                *)
(***************************************************************************)

\* C4: what a request for record k of a channel receives is the k-th payload
\* (counting from 0) that arrived on that channel.
C4_RequestGetsItsRecord ==
    \A s \in 1..Len(rx) :
        rx[s].payload # NoPayload
        => /\ rx[s].record_id < Len(arrived[rx[s].channel])
           /\ rx[s].payload = arrived[rx[s].channel][rx[s].record_id + 1]

\* a later record was requested before an earlier one of the same channel and
\* both requests were answered, with different payloads
C4_Witness ==
    \E s, t \in 1..Len(rx) :
        /\ s < t
        /\ rx[s].channel = rx[t].channel
        /\ rx[s].record_id > rx[t].record_id
        /\ rx[s].payload # NoPayload
        /\ rx[t].payload # NoPayload
        /\ rx[s].payload # rx[t].payload

\* C5: the payload of one record of a channel is handed to at most one
\* requester.
C5_NoRecordDeliveredTwice ==
    \A s, t \in 1..Len(rx) :
        (/\ s # t
         /\ rx[s].channel = rx[t].channel
         /\ rx[s].record_id = rx[t].record_id)
        => (rx[s].payload = NoPayload \/ rx[t].payload = NoPayload)

\* a record was delivered and then requested a second time
C5_Witness ==
    /\ ~panicked
    /\ \E s, t \in 1..Len(rx) :
          /\ s < t
          /\ rx[s].channel = rx[t].channel
          /\ rx[s].record_id = rx[t].record_id
          /\ rx[s].payload # NoPayload
          /\ rx[t].payload = NoPayload

(***************************************************************************)
(* Properties of prepare, receive_inputs, query_status and complete        *)
(* (checked under Spec)                                                    *)
(***************************************************************************)

\* C11: a prepare on a follower (its role is not H1) that returns while the
\* registry holds an entry for the query id, whatever its state and also when
\* the entry was inserted while the prepare was running, returns
\* AlreadyRunning and leaves the registry as it was.
C11_PrepareRejectedWhenEntryExists ==
    [][ (/\ ret'.op = "prepare"
         /\ role(ret'.req.roles, ret'.h) # "H1"
         /\ queries[ret'.h].tag # "Empty")
        => (ret'.tag = "AlreadyRunning" /\ queries' = queries) ]_vars

\* C12: receive_inputs on an AwaitingInputs(query_id, config, roles) entry
\* returns Ok and replaces the entry in one step by Running, the executor
\* started with that query id, config, roles and the input stream, its outcome
\* pending; receive_inputs never leaves a state without the entry.
C12_ReceiveInputsStartsExecutor ==
    [][ /\ (ret'.op = "receive_inputs" /\ queries[ret'.h].tag = "AwaitingInputs")
           => /\ ret'.tag = "Ok"
              /\ \E input \in QueryInputs :
                    queries' = [queries EXCEPT ![ret'.h] =
                        Running(queries[ret'.h].query_id, queries[ret'.h].config,
                                queries[ret'.h].roles, input.input_stream,
                                "pending")]
              /\ completion' = completion
        /\ (ret'.op = "receive_inputs" /\ queries[ret'.h].tag # "Empty")
           => queries'[ret'.h].tag # "Empty" ]_vars

\* receive_inputs has started the executor of a follower's query
C12_Witness ==
    /\ ret.op = "receive_inputs"
    /\ ret.tag = "Ok"
    /\ queries[ret.h].tag = "Running"
    /\ queries[ret.h].outcome = "pending"
    /\ queries[ret.h].input \in Inputs
    /\ role(queries[ret.h].roles, ret.h) = "H3"

\* C13: receive_inputs on an entry in a state other than AwaitingInputs
\* returns InvalidState {from: the entry's status, to: Running}, starts no
\* executor and leaves the entry as it was; without an entry it returns
\* NoSuchQuery and the registry stays without one.
C13_ReceiveInputsRejected ==
    [][ ret'.op = "receive_inputs"
        => /\ queries[ret'.h].tag \notin {"Empty", "AwaitingInputs"}
              => /\ ret'.tag = "StateError"
                 /\ ret'.err = InvalidState(queries[ret'.h].tag, "Running")
                 /\ queries' = queries
                 /\ completion' = completion
                 /\ used' = used
           /\ queries[ret'.h].tag = "Empty"
              => /\ ret'.tag = "NoSuchQuery"
                 /\ queries' = queries
                 /\ completion' = completion
                 /\ used' = used ]_vars

\* receive_inputs was rejected on an entry whose result is awaited
C13_Witness ==
    /\ ret.op = "receive_inputs"
    /\ ret.tag = "StateError"
    /\ ret.err = InvalidState("AwaitingCompletion", "Running")
    /\ queries[ret.h] = AwaitingCompletion

\* C14: query_status changes the registry only by replacing a Running entry
\* whose executor has finished by Completed(result); in every other case the
\* registry after the call is the registry before it, and without an entry it
\* returns NoSuchQuery and creates none.
C14_QueryStatusFrame ==
    [][ ret'.op = "query_status"
        => /\ completion' = completion
           /\ calls' = calls
           /\ net' = net
           /\ IF queries[ret'.h].tag = "Empty"
              THEN ret'.tag = "NoSuchQuery" /\ queries' = queries
              ELSE IF /\ queries[ret'.h].tag = "Running"
                      /\ queries[ret'.h].outcome # "pending"
              THEN /\ ret'.tag = "Ok"
                   /\ ret'.status = "Completed"
                   /\ queries' = [queries EXCEPT ![ret'.h] =
                                     Completed(queries[ret'.h].outcome)]
              ELSE /\ ret'.tag = "Ok"
                   /\ ret'.status = queries[ret'.h].tag
                   /\ queries' = queries ]_vars

\* query_status has found the executor finished with a protocol error
C14_Witness ==
    /\ ret.op = "query_status"
    /\ ret.status = "Completed"
    /\ queries[ret.h] = Completed("ProtocolError")

\* C15: complete on a Running entry leaves AwaitingCompletion in the registry
\* when it suspends; for as long as the caller is awaiting, the entry stays
\* AwaitingCompletion and query_status reports it; when the executor has
\* finished, complete returns its outcome (the result, or ExecutionError).
C15_AwaitingCompletionWhileAwaited ==
    [][ /\ \A h \in Helpers :
              completion'[h].tag = "Running" => queries'[h] = AwaitingCompletion
        /\ (ret'.op = "query_status" /\ completion[ret'.h].tag = "Running")
           => (ret'.tag = "Ok" /\ ret'.status = "AwaitingCompletion")
        /\ (/\ ret'.op = "complete"
            /\ completion[ret'.h].tag = "Running"
            /\ completion'[ret'.h].tag = "Empty")
           => /\ ret'.outcome = completion[ret'.h].outcome
              /\ ret'.tag = IF ret'.outcome = "Ok" THEN "Ok" ELSE "ExecutionError"
      ]_vars

\* C16: complete on an entry in Preparing, AwaitingInputs or
\* AwaitingCompletion returns InvalidState with the entry's status as `from`
\* (and Running as `to`) and leaves the entry as it was; without an entry it
\* returns NoSuchQuery.
C16_CompleteRejected ==
    [][ (ret'.op = "complete" /\ completion' = completion)
        => /\ queries[ret'.h].tag \in {"Preparing", "AwaitingInputs",
                                       "AwaitingCompletion"}
              => /\ ret'.tag = "StateError"
                 /\ ret'.err = InvalidState(queries[ret'.h].tag, "Running")
                 /\ queries' = queries
           /\ queries[ret'.h].tag = "Empty"
              => /\ ret'.tag = "NoSuchQuery"
                 /\ queries' = queries ]_vars

\* a second complete was rejected while the first one is awaiting the result
C16_Witness ==
    /\ ret.op = "complete"
    /\ ret.tag = "StateError"
    /\ ret.err = InvalidState("AwaitingCompletion", "Running")
    /\ queries[ret.h] = AwaitingCompletion
    /\ completion[ret.h].tag = "Running"

\* C17: when complete has returned the outcome of the query (it found the
\* entry Completed, or it awaited the Running query), the registry holds no
\* entry for the query id, so that a new_query or a prepare can insert the
\* entry of a second query with the same id.
C17_NoEntryAfterComplete ==
    (ret.op = "complete" /\ ret.tag \in {"Ok", "ExecutionError"})
    => /\ queries[ret.h] = Empty
       /\ status(ret.h) = "None"
       /\ \A c \in Configs : set_state(ret.h, Preparing(c)).err = NoError
       /\ \A req \in DirectRequests :
             set_state(ret.h, AwaitingInputs(req.query_id, req.config,
                                             req.roles)).err = NoError

\* complete has awaited the running query and returned its result
C17_Witness ==
    /\ ret.op = "complete"
    /\ ret.tag = "Ok"
    /\ ret.outcome = "Ok"
    /\ observed.status = "AwaitingCompletion"
    /\ queries[ret.h] = Empty

\* C18: when the future of complete is dropped while it awaits the running
\* query, the entry is removed from the registry; an AwaitingCompletion entry
\* is in the registry only while a complete call holds the completion handle.
C18_DroppedCompleteRemovesEntry ==
    [][ \A h \in Helpers :
           /\ (/\ completion[h].tag = "Running"
               /\ completion'[h].tag = "Empty"
               /\ ret'.op # "complete")
              => queries'[h] = Empty
           /\ queries'[h].tag = "AwaitingCompletion"
              => completion'[h].tag = "Running" ]_vars

\* query_status had reported AwaitingCompletion, then the entry was removed
\* and no complete call returned
C18_Witness ==
    /\ observed = [status |-> "AwaitingCompletion", removed |-> TRUE]
    /\ queries[Watched] = Empty
    /\ completion[Watched] = Empty
    /\ ret.op = "none"
    /\ \A c \in Calls : calls[c].pc = "unused"
    /\ net = {}

\* C19: once the executor has finished, query_status returns Completed, and
\* it keeps returning Completed as long as no complete is called: the entry
\* stays Completed under every other operation; a complete called then
\* returns the outcome that the executor produced.
C19_CompletedUntilComplete ==
    [][ /\ (/\ ret'.op = "query_status"
            /\ queries[ret'.h].tag = "Running"
            /\ queries[ret'.h].outcome # "pending")
           => /\ ret'.status = "Completed"
              /\ queries'[ret'.h].outcome = queries[ret'.h].outcome
        /\ (/\ observed.status = "Completed"
            /\ ~observed.removed
            /\ ret'.op # "complete")
           => queries'[Watched] = queries[Watched]
        /\ (ret'.op = "complete" /\ queries[ret'.h].tag = "Completed")
           => ret'.outcome = queries[ret'.h].outcome ]_vars

C21_OneReceiverPerChannel ==
    /\ \A i, j \in DOMAIN streams :
          streams[i].channel = streams[j].channel => i = j
    /\ \A g \in Getters :
          getters[g].pc = "done"
          => /\ getters[g].channel \in DOMAIN receivers
             /\ getters[g].got = receivers[getters[g].channel]

\* C22: check_idle_and_reset returns true exactly when the receiver of every
\* registered channel is idle (true for an empty map), and whatever the order
\* of the visit it clears the activity flag of every registered receiver, also
\* of those visited after one that is not idle; receivers that are not in the
\* map are left alone.
C22_IdleIffAllIdleAndAllReset ==
    \A entries \in Orders(receivers) :
        LET out == check_idle_and_reset(receivers, streams, entries)
            registered == { receivers[c] : c \in DOMAIN receivers }
        IN  /\ out.rst = (\A id \in registered : ur_is_idle(streams[id]))
            /\ DOMAIN out.streams = DOMAIN streams
            /\ \A id \in DOMAIN streams :
                  out.streams[id] = IF id \in registered
                                    THEN [streams[id] EXCEPT !.active = FALSE]
                                    ELSE streams[id]

\* a check has just returned false with two channels registered, one of them
\* holding entries and the other one without entries, and no flag is left set
C22_Witness ==
    /\ idle = [called |-> TRUE, rst |-> FALSE]
    /\ Cardinality(DOMAIN receivers) = 2
    /\ \E c, d \in DOMAIN receivers :
          /\ streams[receivers[c]].slots > 0
          /\ streams[receivers[d]].slots = 0
    /\ \A c \in DOMAIN receivers : ~streams[receivers[c]].active

(***************************************************************************)
(* Requests and arrivals of the receive buffer (checked under SpecBuf and, *)
(* for C25, SpecBufLive)                                                   *)
(***************************************************************************)

\* C23: once record r of a channel has both been requested and arrived, in
\* either order, the requester holds the r-th payload and the buffer has no
\* slot for r; so a channel whose arrived records have all been requested and
\* whose requests have all been answered holds no slot at all (as long as no
\* panic has ended the buffer's life).
C23_RequestAndArrivalMeet ==
    ~panicked =>
    /\ \A s \in 1..Len(rx) :
          LET c == rx[s].channel
              r == rx[s].record_id
          IN  r < Len(arrived[c])
              => /\ rx[s].payload = arrived[c][r + 1]
                 /\ r \notin DOMAIN inner[c]
    /\ \A c \in DOMAIN inner :
          (/\ \A r \in 0..(Len(arrived[c]) - 1) :
                 \E s \in 1..Len(rx) : rx[s].channel = c /\ rx[s].record_id = r
           /\ \A s \in 1..Len(rx) :
                 rx[s].channel = c => rx[s].payload # NoPayload)
          => inner[c] = EmptyMap

\* C24: two requests for the same record of the same channel end in a panic,
\* whether the first one is still pending or has already been answered.
C24_SecondRequestPanics ==
    \A s, t \in 1..Len(rx) :
        (/\ s < t
         /\ rx[s].channel = rx[t].channel
         /\ rx[s].record_id = rx[t].record_id)
        => panicked

\* C25: a request for record r of a channel is eventually answered if the
\* transport eventually delivers r+1 payloads on that channel, whatever the
\* order of the requests and whether the request or the arrival comes first
\* (a panic ends the buffer's life and with it every pending request).
C25_RequestEventuallyAnswered ==
    \A s \in 1..MaxRequests :
        (Len(rx) >= s /\ Len(arrived[rx[s].channel]) > rx[s].record_id)
        ~> (panicked \/ (Len(rx) >= s /\ rx[s].payload # NoPayload))

\* C26: receive_messages panics on a chunk whose length is not a multiple of
\* the payload size: the whole payloads in front of the remainder take the
\* next record ids, and the remainder is neither skipped nor given a record id.
C26_PartialChunkPanics ==
    ~panicked =>
    \A c \in Channels, m \in Messages :
        Len(m) % MESSAGE_PAYLOAD_SIZE_BYTES # 0
        => LET out == receive_messages(Buffer, c, m)
               offset == IF c \in DOMAIN record_ids THEN record_ids[c] ELSE 0
           IN  /\ out.panicked
               /\ out.record_ids[c] =
                     offset + Len(m) \div MESSAGE_PAYLOAD_SIZE_BYTES

\* a panic after payloads have arrived, in a run where no record was requested
\* twice: the panic is the one of a chunk with a remainder
C26_Witness ==
    /\ panicked
    /\ \E c \in Channels : Len(arrived[c]) > 0
    /\ \A s, t \in 1..Len(rx) :
          (rx[s].channel = rx[t].channel /\ rx[s].record_id = rx[t].record_id)
          => s = t

(***************************************************************************)
(* Properties of the malicious shares (checked under SpecShares)           *)
(***************************************************************************)

\* C27: whatever expression of +, -, negation and multiplication by scalars
\* the helpers have applied to their malicious shares, the three results are a
\* replicated sharing, their x components reconstruct to the expression of
\* the shared values and their rx components to r times that.
C27_AlgebraCommutesWithReconstruction ==
    LET E == ExtendedField(field)
        xs == [i \in 1..3 |-> acc[i].x]
        rxs == [i \in 1..3 |-> acc[i].rx]
    IN  /\ \A i \in 1..3 :
              /\ xs[i].right = xs[(i % 3) + 1].left
              /\ rxs[i].right = rxs[(i % 3) + 1].left
        /\ reconstruct(field, xs) = expected
        /\ reconstruct(E, rxs) = f_mul(E, randomization, to_extended(field, expected))

\* an expression with a subtraction, a negation and a multiplication by a
\* scalar other than 0 and 1, whose value is not zero
C27_Witness ==
    /\ \E i, j, k \in DOMAIN ops :
          ops[i] = "sub" /\ ops[j] = "neg" /\ ops[k] = "mul"
    /\ result.op = "mul"
    /\ result.scalar \notin {0, 1}
    /\ expected # f_zero(field)

\* C28: multiplying a malicious share by a scalar c multiplies both parts of x
\* by c and both parts of rx by c.to_extended(); to_extended is the identity on
\* a prime field, maps the 0 of Gf2 to the zero of Gf32Bit and its 1 to the
\* element with only the least significant bit set (so that rx is kept or
\* becomes zero), and preserves sums and products.
C28_MulByScalar ==
    LET E == ExtendedField(field)
    IN  /\ result.op = "mul"
           => \A i \in 1..3 :
                 LET b == result.before[i]
                     c == result.scalar
                 IN  /\ acc[i].x.left = f_mul(field, b.x.left, c)
                     /\ acc[i].x.right = f_mul(field, b.x.right, c)
                     /\ acc[i].rx.left = f_mul(E, b.rx.left, to_extended(field, c))
                     /\ acc[i].rx.right = f_mul(E, b.rx.right, to_extended(field, c))
                     /\ field = "Gf2"
                        => acc[i].rx = IF c = 1 THEN b.rx
                                       ELSE SemiHonestAdditiveShare({}, {})
        /\ field = "Fp31" => \A a \in Elements(field) : to_extended(field, a) = a
        /\ field = "Gf2" => /\ to_extended(field, 0) = {}
                            /\ to_extended(field, 1) = {0}
        /\ \A a, b \in Elements(field) :
              /\ to_extended(field, f_add(field, a, b))
                    = f_add(E, to_extended(field, a), to_extended(field, b))
              /\ to_extended(field, f_mul(field, a, b))
                    = f_mul(E, to_extended(field, a), to_extended(field, b))

\* a Gf2 share whose rx parts are not zero has been multiplied by 1
C28_Witness ==
    /\ field = "Gf2"
    /\ result.op = "mul"
    /\ result.scalar = 1
    /\ \A i \in 1..3 : result.before[i].rx.left # {}
    /\ \E i \in 1..3 : result.before[i].x.left = 1

\* C29: serialize writes the bytes of x and then the bytes of rx, each at its
\* fixed width, and deserialize gives back the share that was serialized, over
\* a prime field and over Gf2 with rx in Gf32Bit.
C29_SerializeRoundTrip ==
    result.op = "serialize"
    => \A i \in 1..3 :
          /\ Len(result.bytes[i])
                = sh_Size(field) + sh_Size(ExtendedField(field))
          /\ SubSeq(result.bytes[i], 1, sh_Size(field))
                = sh_serialize(field, acc[i].x)
          /\ SubSeq(result.bytes[i], sh_Size(field) + 1, Len(result.bytes[i]))
                = sh_serialize(ExtendedField(field), acc[i].rx)
          /\ result.back[i].ok
          /\ result.back[i].share = acc[i]

\* C30: what a downgraded malicious share releases is its x share, whatever
\* its rx share is, and a downgraded semi-honest share releases itself.
C30_DowngradeYieldsX ==
    result.op = "downgrade"
    => \A i \in 1..3 :
          /\ result.malicious[i] = acc[i].x
          /\ result.semi_honest[i] = acc[i].rx

\* shares over Fp31 whose x and rx differ have been downgraded
C30_Witness ==
    /\ result.op = "downgrade"
    /\ field = "Fp31"
    /\ \A i \in 1..3 : acc[i].x # acc[i].rx
    /\ \A i \in 1..3 : acc[i].x.left # acc[i].x.right

(***************************************************************************)
(* Properties of the sharing of composite values (checked under SpecInto)  *)
(***************************************************************************)

\* C32: sharing a pair or a sequence of values returns three collections of
\* the shape, the length and the order of the input, in which helper j's
\* collection holds at every position helper j's share of the element at that
\* position, and reconstructing the three component by component returns the
\* pair or the sequence that was shared.
C32_CompositeSharesReconstruct ==
    /\ shared.op = "vec"
       => /\ \A j \in 1..3 :
                /\ Len(shared.shares[j]) = Len(shared.input)
                /\ \A k \in 1..Len(shared.input) :
                      shared.shares[j][k] =
                          share_with(shared.F, shared.input[k],
                                     shared.draws[k][1], shared.draws[k][2])[j]
          /\ reconstruct_vec(shared.F, shared.shares) = shared.input
    /\ shared.op = "tuple"
       => /\ \A j \in 1..3 :
                /\ Len(shared.shares[j]) = 2
                /\ shared.shares[j][1] =
                       share_with(shared.F, shared.input[1],
                                  shared.draws[1][1], shared.draws[1][2])[j]
                /\ shared.shares[j][2] =
                       share_with(shared.G, shared.input[2],
                                  shared.draws[2][1], shared.draws[2][2])[j]
          /\ reconstruct_tuple(shared.F, shared.G, shared.shares) = shared.input

\* a sequence of three values that are not all the same has been shared
C32_Witness ==
    /\ shared.op = "vec"
    /\ Len(shared.input) = 3
    /\ shared.input[1] # shared.input[3]
    /\ reconstruct_vec(shared.F, shared.shares) = shared.input

(***************************************************************************)
(* Properties of the event generator (checked under SpecGen)               *)
(***************************************************************************)

C34_OnlyLegalChanges ==
    [][ /\ \A h \in Helpers :
              QueryStatus(queries'[h]) # QueryStatus(queries[h])
              => \/ Legal(QueryStatus(queries[h]), QueryStatus(queries'[h]))
                 \/ queries'[h] = Empty
        /\ ret'.tag \in {"State", "StateError"}
           => \/ queries' = queries
              \/ /\ ret'.op = "new_query"
                 /\ ret'.call # 0
                 /\ queries' = remove_query(queries, ret'.h) ]_vars

\* a set_state outside the table has failed on an entry that is still there:
\* a prepare that found no entry when it checked and AwaitingInputs when it
\* set the state
C34_Witness ==
    /\ ret.op = "prepare"
    /\ ret.tag = "StateError"
    /\ ret.err = InvalidState("AwaitingInputs", "AwaitingInputs")
    /\ queries[ret.h].tag = "AwaitingInputs"

\* C35: a registry holds a Preparing entry only while a new_query call is in
\* progress on that helper: however new_query ends after it has inserted
\* Preparing (broadcast error, failure of the final set_state, the future
\* dropped, or success), no Preparing entry is left.
C35_PreparingOnlyDuringNewQuery ==
    \A h \in Helpers :
        queries[h].tag = "Preparing"
        => \E c \in Calls : calls[c].pc = "sending" /\ calls[c].h = h

\* a new_query that had inserted Preparing has ended with the failure of its
\* final set_state, no new_query is in progress and the registry of its helper
\* holds no entry
C35_Witness ==
    /\ ret.op = "new_query"
    /\ ret.call # 0
    /\ ret.tag = "State"
    /\ \A c \in Calls : calls[c].pc # "sending"
    /\ queries[ret.h] = Empty

\* C37: a new_query that is rejected with AlreadyRunning is rejected at its
\* first set_state, before it has a guard: the step that rejects it changes
\* neither the registry nor the pending calls with their guards, the messages
\* in flight or the completion handles, so the earlier query goes on as if
\* the rejected call had not been made.
C37_RejectedNewQueryHasNoGuard ==
    [][ (ret'.op = "new_query" /\ ret'.err = AlreadyRunning)
        => /\ ret'.call = 0
           /\ ret'.tag = "State"
           /\ queries' = queries
           /\ calls' = calls
           /\ net' = net
           /\ completion' = completion
           /\ used' = used ]_vars

\* a new_query was rejected while a complete call is awaiting the earlier
\* query, whose entry is still AwaitingCompletion
C37_Witness ==
    /\ ret.op = "new_query"
    /\ ret.err = AlreadyRunning
    /\ queries[ret.h].tag = "AwaitingCompletion"
    /\ completion[ret.h].tag = "Running"

\* C38: the guard of a new_query removes an entry only when it is the
\* Preparing entry: no step in which a pending new_query ends (by an error
\* of the broadcast, by the failure of its final set_state or by the drop of
\* its future) removes an entry that is in AwaitingInputs, Running,
\* AwaitingCompletion or Completed state.
C38_GuardRemovesOnlyPreparing ==
    [][ \A c \in Calls :
           (/\ calls[c].pc = "sending"
            /\ calls'[c].pc # "sending"
            /\ queries'[calls[c].h] = Empty)
           => queries[calls[c].h].tag \in {"Empty", "Preparing"} ]_vars

\* C39: the outcome of a query run is handed to at most one caller of
\* complete.  The task of a run is held by the Running or Completed entry of
\* the registry or by the handle of an awaiting complete; a holder comes into
\* being only when receive_inputs starts a run, and a complete that returns an
\* outcome uses up the holder it took it from.  A complete called while
\* another complete is awaiting the run returns InvalidState (from
\* AwaitingCompletion) or, when the entry is gone, NoSuchQuery, and leaves the
\* handle and the registry as they are.
C39_OutcomeHandedOnce ==
    [][ \A h \in Helpers :
           LET held == (IF queries[h].tag \in {"Running", "Completed"}
                        THEN 1 ELSE 0)
                       + (IF completion[h].tag = "Running" THEN 1 ELSE 0)
               held_next == (IF queries'[h].tag \in {"Running", "Completed"}
                             THEN 1 ELSE 0)
                            + (IF completion'[h].tag = "Running" THEN 1 ELSE 0)
           IN  /\ held_next > held
                  => /\ held_next = held + 1
                     /\ used'.inputs = used.inputs + 1
               /\ (/\ ret'.op = "complete"
                   /\ ret'.h = h
                   /\ ret'.tag \in {"Ok", "ExecutionError"})
                  => held_next < held
               /\ (/\ ret'.op = "complete"
                   /\ ret'.h = h
                   /\ completion[h].tag = "Running"
                   /\ completion'[h] = completion[h]
                   /\ queries[h].tag \in {"AwaitingCompletion", "Empty"})
                  => /\ ret'.tag = IF queries[h].tag = "Empty"
                                   THEN "NoSuchQuery" ELSE "StateError"
                     /\ ret'.tag = "StateError"
                        => ret'.err = InvalidState("AwaitingCompletion", "Running")
                     /\ queries' = queries ]_vars

\* the executor has finished, the first complete has not yet been resumed and
\* a second complete has been rejected: the handle still holds the outcome
C39_Witness ==
    /\ ret.op = "complete"
    /\ ret.tag = "StateError"
    /\ completion[ret.h].tag = "Running"
    /\ completion[ret.h].outcome # "pending"
    /\ queries[ret.h].tag \notin {"Running", "Completed"}

(***************************************************************************)
(* Further properties of ReceiveBuffer (checked under SpecBuf)             *)
(***************************************************************************)

\* C36: a receive_request or receive_messages on one channel leaves every
\* other channel as it was: its slots, its next_record_id, the requests made
\* on it and what they have received.
C36_OtherChannelsUnchanged ==
    [][ \E a \in Channels :
           \A b \in Channels \ {a} :
              /\ (b \in DOMAIN inner') = (b \in DOMAIN inner)
              /\ b \in DOMAIN inner => inner'[b] = inner[b]
              /\ (b \in DOMAIN record_ids') = (b \in DOMAIN record_ids)
              /\ b \in DOMAIN record_ids => record_ids'[b] = record_ids[b]
              /\ arrived'[b] = arrived[b]
              /\ \A s \in 1..Len(rx') :
                    rx'[s].channel = b => (s <= Len(rx) /\ rx'[s] = rx[s]) ]_vars

\* both channels have been used: a request has been answered on one of them
\* while the other holds a payload that arrived and waits for its request
C36_Witness ==
    \E a \in Channels, b \in Channels :
        /\ a # b
        /\ \E s \in 1..Len(rx) : rx[s].channel = a /\ rx[s].payload # NoPayload
        /\ b \in DOMAIN inner
        /\ b \in DOMAIN record_ids
        /\ \E r \in DOMAIN inner[b] : inner[b][r].kind = "Received"

\* C40: every Received slot of a channel has a record id below the
\* channel's next_record_id, and next_record_id is the number of payloads
\* that have arrived on the channel, also after a panic: receive_messages
\* has never stopped at a Received slot under the id it was about to assign
\* (the failure 'Duplicate message for the same record').
C40_ReceivedBelowNextRecordId ==
    /\ \A c \in DOMAIN inner :
          \A r \in DOMAIN inner[c] :
             inner[c][r].kind = "Received"
             => (c \in DOMAIN record_ids /\ r < record_ids[c])
    /\ \A c \in Channels :
          IF c \in DOMAIN record_ids
          THEN record_ids[c] = Len(arrived[c])
          ELSE arrived[c] = << >>

\* two payloads have arrived on a channel after the request for the first
\* one: the request was answered and the second payload waits in its slot
C40_Witness ==
    \E c \in DOMAIN record_ids :
        /\ record_ids[c] = 2
        /\ c \in DOMAIN inner
        /\ DOMAIN inner[c] = {1}
        /\ inner[c][1].kind = "Received"
        /\ \E s \in 1..Len(rx) :
              /\ rx[s].channel = c
              /\ rx[s].record_id = 0
              /\ rx[s].payload # NoPayload
        /\ ~panicked

====
